---- MODULE Spec2Model ----
(***************************************************************************)
(* A model of resume_updater.py (class ResumeUpdater): the skill           *)
(* extractor, the gap detector, the bullet synthesizer with its generator  *)
(* retry loop, and update_resume.                                          *)
(*                                                                         *)
(* Python strings are TLA+ strings; TLC applies Len, \o and SubSeq to      *)
(* them, so every text operation below works on the characters of the     *)
(* string.  TLC strings are ASCII: the bullet character U+2022 of the      *)
(* source is written "@" here (one character, not a word character, as in  *)
(* the source).                                                            *)
(***************************************************************************)
EXTENDS Integers, Sequences, FiniteSets, TLC

VARIABLES
    pc,               \* position of the run
    job_description,  \* the job-description text (requirements_text)
    input_type,       \* what was passed as job description: "str", an "object"
                      \* that is no string but has lower(), or "none"
    found_skills,     \* the set found_skills of extract_all_skills
    all_skills,       \* list returned by extract_all_skills / passed to find_missing_skills
    resume_text,      \* '\n'.join of the document's paragraph texts
    missing,          \* list returned by find_missing_skills
    claude_client,    \* is self.claude_client set
    missing_skills,   \* the list passed to generate_missing_skills_bullets
    template_bullets,         \* bullets of the template-matched skills
    template_matched_skills,  \* the skills a template matched
    unmatched_skills,         \* the skills no template matched
    attempt,          \* calls of the generator made so far
    slept,            \* the time.sleep calls made, in order
    content,          \* the response text of the attempt that succeeded
    api_bullets,      \* the generator's bullets, prefixed
    bullets,          \* list returned by generate_missing_skills_bullets
    error,            \* what the except clause of line 601 caught, "" if nothing
    doc,              \* self.doc.paragraphs: records of text and style name
    table,            \* the rows of the document's tables: category and content cells
    original_text,    \* the document's text when update_resume loaded it
    requirements,     \* the dictionary parse_requirements returns
    generated_bullets,\* update_resume: the bullets the synthesizer returned
    summary_bullets,  \* update_resume: the bullets for the summary
    job_bullets,      \* update_resume: the bullets for the most recent job
    job_inserted,     \* update_resume: did insert_job_bullets return True
    verification,     \* the dictionary verify_keywords_added returns
    saved,            \* the documents written by save_resume, in order
    result            \* what update_resume returned: <<output_path, added>>

vars == <<pc, job_description, input_type, found_skills, all_skills, resume_text, missing,
          claude_client, missing_skills, template_bullets, template_matched_skills,
          unmatched_skills, attempt, slept, content, api_bullets, bullets, error,
          doc, table, original_text, requirements, generated_bullets, summary_bullets,
          job_bullets, job_inserted, verification, saved, result>>

\* the synthesizer's variables before it has run
SynthIdle ==
    /\ template_bullets = <<>>
    /\ template_matched_skills = <<>>
    /\ unmatched_skills = <<>>
    /\ attempt = 0
    /\ slept = <<>>
    /\ content = ""
    /\ api_bullets = <<>>
    /\ bullets = <<>>
    /\ error = ""

parseVars == <<job_description, input_type, found_skills, all_skills, resume_text, missing>>
synthInputs == <<claude_client, missing_skills>>
synthVars == <<template_bullets, template_matched_skills, unmatched_skills, attempt, slept,
               content, api_bullets, bullets, error>>
updateVars == <<doc, table, original_text, requirements, generated_bullets, summary_bullets,
                job_bullets, job_inserted, verification, saved, result>>

\* the variables of update_resume before it has run
RunIdle ==
    /\ original_text = ""
    /\ requirements = [k \in {"cloud_services", "containers", "cicd_tools", "programming",
                               "databases", "monitoring", "messaging", "other_skills",
                               "methodologies", "missing_skills", "all_extracted_skills"}
                          |-> <<>>]
    /\ generated_bullets = <<>>
    /\ summary_bullets = <<>>
    /\ job_bullets = <<>>
    /\ job_inserted = FALSE
    /\ verification = [added |-> <<>>, already_present |-> <<>>, not_added |-> <<>>]
    /\ saved = <<>>
    /\ result = <<>>

\* no document is loaded and update_resume has not run
UpdateIdle == doc = <<>> /\ table = <<>> /\ RunIdle

----------------------------------------------------------------------------
(* Characters and strings                                                  *)

Ch(s, i) == SubSeq(s, i, i)

UpperChars == "ABCDEFGHIJKLMNOPQRSTUVWXYZ"
LowerChars == "abcdefghijklmnopqrstuvwxyz"
DigitChars == "0123456789"

CharsOf(s) == { Ch(s, i) : i \in 1..Len(s) }

\* str.lower() on one character
LowerMap == [ c \in CharsOf(UpperChars) |->
                Ch(LowerChars, CHOOSE i \in 1..26 : Ch(UpperChars, i) = c) ]

LowerCh(c) == IF c \in DOMAIN LowerMap THEN LowerMap[c] ELSE c

RECURSIVE Lower(_)
\* str.lower()
Lower(s) ==
    IF Len(s) <= 1 THEN LowerCh(s)
    ELSE Lower(SubSeq(s, 1, Len(s) \div 2)) \o Lower(SubSeq(s, Len(s) \div 2 + 1, Len(s)))

UpperMap == [ c \in CharsOf(LowerChars) |->
                Ch(UpperChars, CHOOSE i \in 1..26 : Ch(LowerChars, i) = c) ]

UpperCh(c) == IF c \in DOMAIN UpperMap THEN UpperMap[c] ELSE c

RECURSIVE Upper(_)
\* str.upper()
Upper(s) ==
    IF Len(s) <= 1 THEN UpperCh(s)
    ELSE Upper(SubSeq(s, 1, Len(s) \div 2)) \o Upper(SubSeq(s, Len(s) \div 2 + 1, Len(s)))

\* the regular-expression class \w
WordChars == CharsOf(UpperChars) \cup CharsOf(LowerChars) \cup CharsOf(DigitChars) \cup {"_"}

\* the regular-expression class \s
SpaceChars == {" ", "\t", "\n", "\r", "\f"}

IsWordCh(c) == c \in WordChars

\* is the character at position i of s a word character (FALSE outside s)
WordAt(s, i) == i >= 1 /\ i <= Len(s) /\ IsWordCh(Ch(s, i))

\* the regular-expression assertion \b at the gap before position i of s
Boundary(s, i) == WordAt(s, i - 1) # WordAt(s, i)

\* does the literal lit stand at position i of s (both already in one case)
LitAt(s, i, lit) == i >= 1 /\ i + Len(lit) - 1 <= Len(s) /\ SubSeq(s, i, i + Len(lit) - 1) = lit

\* Python's "sub in s"
Contains(s, sub) == \E i \in 1..(Len(s) - Len(sub) + 1) : LitAt(s, i, sub)

\* re.search(r'\b' + re.escape(lit) + r'\b', s) for s and lit in one case
WordSearch(s, lit) ==
    \E i \in 1..(Len(s) - Len(lit) + 1) :
        /\ LitAt(s, i, lit)
        /\ Boundary(s, i)
        /\ Boundary(s, i + Len(lit))

Range(q) == { q[i] : i \in 1..Len(q) }

RECURSIVE Concat(_)
\* ''.join(parts)
Concat(parts) == IF parts = <<>> THEN "" ELSE Head(parts) \o Concat(Tail(parts))

\* all sequences over S of length at most n
SeqsUpTo(S, n) == UNION { [1..k -> S] : k \in 0..n }

----------------------------------------------------------------------------
(* extract_all_skills: the vocabulary (lines 79-152)                       *)

known_skills == <<
    \* Cloud Platforms
    "AWS", "Azure", "GCP", "Google Cloud", "Cloud", "Multi-cloud",
    \* AWS Services
    "ECS", "Fargate", "Lambda", "EC2", "S3", "VPC", "RDS", "DynamoDB", "Aurora",
    "CloudFront", "Route 53", "API Gateway", "SNS", "SQS", "CloudWatch", "CloudTrail",
    "AWS Organizations", "Service Control Policies", "SCPs", "Control Tower",
    "AWS Config", "Security Hub", "GuardDuty", "IAM", "KMS", "Secrets Manager",
    "CloudFormation", "CDK", "Systems Manager", "Parameter Store",
    "Elastic Beanstalk", "EKS", "EFS", "Glacier",
    \* Container & Orchestration
    "Kubernetes", "K8s", "Docker", "Container", "Containerd", "CRI-O",
    "Helm", "ArgoCD", "Argo Workflows", "Flux", "OpenShift", "Rancher",
    "Kustomize", "Istio", "Linkerd", "Service Mesh",
    \* CI/CD
    "Jenkins", "GitLab", "GitLab CI", "GitHub", "GitHub Actions", "Actions",
    "CI/CD", "Pipeline", "Pipelines", "Continuous Integration", "Continuous Deployment",
    "Tekton", "Bamboo", "TeamCity", "CircleCI", "Travis CI", "Azure DevOps",
    "CodePipeline", "CodeBuild", "CodeDeploy",
    \* IaC & Configuration Management
    "Terraform", "Pulumi", "Ansible", "Infrastructure as Code", "IaC",
    "Chef", "Puppet", "SaltStack", "Vagrant",
    \* Programming & Scripting
    "Python", "Bash", "Shell", "Scripting", "Script", "PowerShell",
    "Go", "Golang", "Java", "Node.js", "JavaScript", "TypeScript",
    "Ruby", "Perl", "Groovy", ".NET", "C#",
    \* Messaging & Streaming
    "Kafka", "Apache Kafka", "Kinesis", "RabbitMQ", "Redis", "Messaging",
    "ActiveMQ", "NATS", "Pulsar",
    \* Monitoring & Observability
    "Prometheus", "Grafana", "DataDog", "Monitoring", "Observability",
    "ELK", "Elasticsearch", "Logstash", "Kibana", "Splunk",
    "New Relic", "AppDynamics", "Dynatrace", "Jaeger", "Zipkin",
    \* Security & Compliance
    "Security", "DevSecOps", "Security governance", "Compliance",
    "IQ scripts", "SIEM", "Vulnerability scanning", "Penetration testing",
    "Snyk", "Aqua", "Twistlock", "Falco", "OPA", "Open Policy Agent",
    "Vault", "HashiCorp Vault", "SSL", "TLS", "mTLS", "OAuth", "SAML",
    \* Databases
    "PostgreSQL", "MySQL", "MongoDB", "Database", "SQL", "NoSQL",
    "Cassandra", "CouchDB", "MariaDB", "Oracle", "MS SQL", "Redis",
    \* Architecture & Patterns
    "API", "REST API", "GraphQL", "gRPC", "Microservices", "Monolith",
    "BFF", "Backend for Frontend", "Event-driven", "Serverless",
    "SOA", "Service-Oriented Architecture",
    \* Methodologies
    "SAFe", "Agile", "Scrum", "Kanban", "DevOps", "SRE", "GitOps",
    "Lean", "ITIL", "Six Sigma",
    \* Version Control & Collaboration
    "Git", "GitHub", "GitLab", "Bitbucket", "Version control", "SVN",
    "Jira", "Confluence", "ServiceNow", "PagerDuty",
    \* Build Tools
    "Maven", "Gradle", "Ant", "npm", "yarn", "pip", "Webpack",
    \* Web Servers & Load Balancers
    "Nginx", "Apache", "HAProxy", "Traefik", "Envoy",
    \* Testing
    "Selenium", "JUnit", "TestNG", "pytest", "Jest", "Mocha",
    "Load testing", "Performance testing", "Integration testing",
    \* Data Formats
    "YAML", "JSON", "XML", "HCL", "TOML",
    \* OS & Platforms
    "Linux", "Unix", "RHEL", "CentOS", "Ubuntu", "Debian", "Windows Server",
    "Windows Administration", "System Administration", "Infrastructure Engineer", "Infrastructure Engineering",
    \* Networking
    "DNS", "Load balancing", "CDN", "VPN", "Firewall", "WAF",
    "TCP/IP", "HTTP", "HTTPS",
    \* AI/ML
    "AI/ML", "Machine Learning", "AI requirements", "ML requirements",
    \* Other
    "Automation", "Orchestration", "Configuration management",
    "Infrastructure monitoring", "Application performance monitoring",
    "Log aggregation", "Incident management", "Change management",
    "Financial Services"
>>

\* skill.lower() of every vocabulary entry (line 159)
known_skills_lower == [ i \in DOMAIN known_skills |-> Lower(known_skills[i]) ]

----------------------------------------------------------------------------
(* extract_all_skills: the regular expressions of lines 165-187, matched   *)
(* as Python's backtracking matcher does: alternatives in the order        *)
(* written, greedy repetitions longest first, lazy ones shortest first.    *)
(* t is the text, lt its lower-case form (re.IGNORECASE).                  *)

MinOf(S) == CHOOSE x \in S : \A y \in S : x <= y
MaxOf(S) == CHOOSE x \in S : \A y \in S : x >= y

RECURSIVE ClassRun(_, _, _)
\* how many characters of the class stand at position q and after it
ClassRun(t, q, class) ==
    IF q <= Len(t) /\ Ch(t, q) \in class THEN 1 + ClassRun(t, q + 1, class) ELSE 0

Digits == CharsOf(DigitChars)

\* [\w\s\-/+\.()]
PhraseClass == WordChars \cup SpaceChars \cup {"-", "/", "+", ".", "(", ")"}
\* [A-Za-z0-9\s\-/+\.()]
LineClass == CharsOf(UpperChars) \cup CharsOf(LowerChars) \cup Digits \cup SpaceChars \cup {"-", "/", "+", ".", "(", ")"}
\* [\s\w]
FillerClass == SpaceChars \cup WordChars

\* index of the first literal of lits that stands at position p of lt, or 0
FirstLit(lt, p, lits) ==
    LET hits == { k \in 1..Len(lits) : LitAt(lt, p, lits[k]) }
    IN  IF hits = {} THEN 0 ELSE MinOf(hits)

\* (?:\s+(?:and|or|...)|\.|$) at position q: the position after it, or 0.
\* No stop word begins with white space, so \s+ can only take the whole run.
PhraseEnd(t, lt, q) ==
    LET stops == <<"and", "or", ",", ".", "to", "for", "in", "is", "are", "will", "must",
                   "should", "including">>
        w == ClassRun(t, q, SpaceChars)
        k == IF w >= 1 THEN FirstLit(lt, q + w, stops) ELSE 0
    IN  IF k > 0 THEN q + w + Len(stops[k])
        ELSE IF LitAt(lt, q, ".") THEN q + 1
        ELSE IF q = Len(t) + 1 \/ (q = Len(t) /\ Ch(t, q) = "\n") THEN q
        ELSE 0

\* (?:\n|$) under re.MULTILINE at position q: the position after it, or 0
LineEnd(t, q) ==
    IF q <= Len(t) /\ Ch(t, q) = "\n" THEN q + 1
    ELSE IF q = Len(t) + 1 THEN q
    ELSE 0

StopEnd(kind, t, lt, q) == IF kind = "phrase" THEN PhraseEnd(t, lt, q) ELSE LineEnd(t, q)

\* a match: s the start of the group, g its length, e the position after the match
NoMatch == [s |-> 0, g |-> 0, e |-> 0]

\* the match of a group of length g at position s whose stop ends before e,
\* no match when the stop did not match (e = 0)
Match(s, g, e) == IF e = 0 THEN NoMatch ELSE [s |-> s, g |-> g, e |-> e]

\* the backtracking order: of the attempts tries[k], the first that matches
FirstMatch(tries) ==
    LET ok == { k \in DOMAIN tries : tries[k].e # 0 }
    IN  IF ok = {} THEN NoMatch ELSE tries[MinOf(ok)]

\* of the attempts tries[k], the last that matches (a greedy repetition)
LastMatch(tries) ==
    LET ok == { k \in DOMAIN tries : tries[k].e # 0 }
    IN  IF ok = {} THEN NoMatch ELSE tries[MaxOf(ok)]

Smaller(a, b) == IF a < b THEN a ELSE b

\* the lazy group (class{lo,hi}?) at position gs followed by its stop: the
\* shortest group after which the stop matches
Group(t, lt, gs, class, lo, hi, kind) ==
    FirstMatch([ g \in lo..Smaller(ClassRun(t, gs, class), hi) |->
                   Match(gs, g, StopEnd(kind, t, lt, gs + g)) ])

\* greedy white space (at least minw characters) at position p, then the group
AfterSpaces(t, lt, p, minw, class, lo, hi, kind) ==
    LastMatch([ w \in minw..ClassRun(t, p, SpaceChars) |->
                  Group(t, lt, p + w, class, lo, hi, kind) ])

\* [\s]+ that a literal must follow: the position after the white space, or 0
SkipSpaces(t, p) == LET w == ClassRun(t, p, SpaceChars) IN IF w >= 1 THEN p + w ELSE 0

\* [\s]+([\w\s\-/+\.()]{2,40}?)(?:\s+(?:and|...)|\.|$)
PhraseGroup(t, lt, p) == AfterSpaces(t, lt, p, 1, PhraseClass, 2, 40, "phrase")

\* an alternation of literals at position p followed by the phrase group:
\* the match of the first literal, in the order written, after which the
\* group matches
LitsThenGroup(t, lt, p, lits) ==
    FirstMatch([ k \in 1..Len(lits) |->
                   IF LitAt(lt, p, lits[k]) THEN PhraseGroup(t, lt, p + Len(lits[k]))
                   ELSE NoMatch ])

\* pattern 1 (line 166)
Pattern1Conn(t, lt, p) == LitsThenGroup(t, lt, p, <<"in", "with", "of", "using">>)

\* [\s\w]*? then the connector: the shortest filler first
Pattern1Filler(t, lt, p) ==
    FirstMatch([ f \in 0..ClassRun(t, p, FillerClass) |-> Pattern1Conn(t, lt, p + f) ])

Pattern1(t, lt, s) ==
    LET cues == <<"experience", "expertise", "proficiency", "knowledge", "understanding",
                  "skills", "skill", "background">>
    IN  FirstMatch([ k \in 1..Len(cues) |->
                       IF LitAt(lt, s, cues[k]) THEN Pattern1Filler(t, lt, s + Len(cues[k]))
                       ELSE NoMatch ])

\* pattern 2 (line 167)
Pattern2(t, lt, s) ==
    LitsThenGroup(t, lt, s, <<"using", "utilize", "work with", "working with", "implement",
                              "deploy", "manage", "maintain", "configure", "design",
                              "build", "develop">>)

\* pattern 3 (line 168)
Pattern3Conn(t, lt, p) ==
    IF SkipSpaces(t, p) = 0 THEN NoMatch
    ELSE LitsThenGroup(t, lt, SkipSpaces(t, p), <<"in", "with", "of">>)

Pattern3Noun(t, lt, p) ==
    IF SkipSpaces(t, p) = 0 THEN NoMatch
    ELSE LET nouns == <<"experience", "knowledge", "understanding", "expertise">>
         IN  FirstMatch([ k \in 1..Len(nouns) |->
                            IF LitAt(lt, SkipSpaces(t, p), nouns[k])
                            THEN Pattern3Conn(t, lt, SkipSpaces(t, p) + Len(nouns[k]))
                            ELSE NoMatch ])

Pattern3(t, lt, s) ==
    LET adjectives == <<"strong", "solid", "deep", "extensive", "proven">>
    IN  FirstMatch([ k \in 1..Len(adjectives) |->
                       IF LitAt(lt, s, adjectives[k])
                       THEN Pattern3Noun(t, lt, s + Len(adjectives[k]))
                       ELSE NoMatch ])

\* bullet pattern 1 (line 185): [•\-\*]\s*([A-Za-z0-9\s\-/+\.()]{3,50}?)(?:\n|$)
Bullet1(t, lt, s) ==
    IF s <= Len(t) /\ Ch(t, s) \in {"@", "-", "*"}
    THEN AfterSpaces(t, lt, s + 1, 0, LineClass, 3, 50, "line")
    ELSE NoMatch

\* bullet pattern 2 (line 186): ^\s*\d+[\.)]\s*(...{3,50}?)(?:\n|$), re.MULTILINE.
\* A digit must follow \s* and [\.)] must follow \d+, so both take their whole run.
Bullet2(t, lt, s) ==
    LET d == s + ClassRun(t, s, SpaceChars)
        n == ClassRun(t, d, Digits)
    IN  IF /\ (s = 1 \/ Ch(t, s - 1) = "\n")
           /\ n >= 1
           /\ d + n <= Len(t)
           /\ Ch(t, d + n) \in {".", ")"}
        THEN AfterSpaces(t, lt, d + n + 1, 0, LineClass, 3, 50, "line")
        ELSE NoMatch

\* the match of pattern id that starts at position s
MatchAt(id, t, lt, s) ==
    CASE id = 1 -> Pattern1(t, lt, s)
      [] id = 2 -> Pattern2(t, lt, s)
      [] id = 3 -> Pattern3(t, lt, s)
      [] id = 4 -> Bullet1(t, lt, s)
      [] id = 5 -> Bullet2(t, lt, s)

RECURSIVE FindAllFrom(_, _, _)
\* re.findall: the groups of the matches found left to right, each search
\* starting where the last match ended; at[s] is the match that starts at s
FindAllFrom(t, at, pos) ==
    LET starts == { p \in pos..Len(t) : at[p].e # 0 }
        p == MinOf(starts)
    IN  IF starts = {} THEN {}
        ELSE {SubSeq(t, at[p].s, at[p].s + at[p].g - 1)}
             \cup FindAllFrom(t, at, IF at[p].e > p THEN at[p].e ELSE p + 1)

FindAll(id, t) == FindAllFrom(t, [ s \in 1..Len(t) |-> MatchAt(id, t, Lower(t), s) ], 1)

RECURSIVE LStrip(_, _)
LStrip(s, chars) == IF s # "" /\ Ch(s, 1) \in chars THEN LStrip(Tail(s), chars) ELSE s

RECURSIVE RStrip(_, _)
RStrip(s, chars) ==
    IF s # "" /\ Ch(s, Len(s)) \in chars THEN RStrip(SubSeq(s, 1, Len(s) - 1), chars) ELSE s

\* str.strip()
Strip(s) == RStrip(LStrip(s, SpaceChars), SpaceChars)

\* match.strip().rstrip(',.').strip() (lines 174, 192)
CleanMatch(m) == Strip(RStrip(Strip(m), {",", "."}))

\* lines 176 and 193 without the vocabulary test of lines 178-181, 194-197
KeepMatchAnyPhrase(cleaned) ==
    /\ Len(cleaned) > 2
    /\ Len(cleaned) < 50

\* lines 176-181 and 193-197: the cleaned match is kept when it has 3..49
\* characters and some vocabulary entry is a substring of it
KeepMatch(cleaned) ==
    /\ Len(cleaned) > 2
    /\ Len(cleaned) < 50
    /\ \E i \in DOMAIN known_skills : Contains(Lower(cleaned), known_skills_lower[i])

MatchedSkills(ids, t) ==
    { c \in { CleanMatch(m) : m \in UNION { FindAll(id, t) : id \in ids } } : KeepMatch(c) }

\* rule 1, lines 157-161, with the test of line 160 inverted
VocabularyHitsInverted(t) ==
    LET lt == Lower(t)
    IN  { known_skills[i] : i \in { j \in DOMAIN known_skills : ~WordSearch(lt, known_skills_lower[j]) } }

\* rule 1, lines 157-161: the vocabulary entries found by the \b...\b search
VocabularyHits(t) ==
    LET lt == Lower(t)
    IN  { known_skills[i] : i \in { j \in DOMAIN known_skills : WordSearch(lt, known_skills_lower[j]) } }

\* rule 2, lines 165-181
PatternHits(t) == MatchedSkills({1, 2, 3}, t)

\* rule 3, lines 184-197
BulletHits(t) == MatchedSkills({4, 5}, t)

\* lines 200-204
final_skills(found) ==
    { c \in { RStrip(Strip(skill), {",", "."}) : skill \in found } :
        c # "" /\ Len(c) > 1 /\ Lower(c) \notin {"a", "an", "the", "and", "or"} }

RECURSIVE SortedShortestFirst(_)
\* sorted(list(final_skills), key=len) without reverse=True
SortedShortestFirst(S) ==
    IF S = {} THEN {<<>>}
    ELSE LET m == MinOf({ Len(x) : x \in S })
         IN  UNION { { <<x>> \o r : r \in SortedShortestFirst(S \ {x}) } : x \in { y \in S : Len(y) = m } }

RECURSIVE SortedByLength(_)
\* sorted(list(final_skills), key=len, reverse=True), line 207: the sort is
\* stable and the list of a set has no fixed order, so terms of one length
\* come in any order
SortedByLength(S) ==
    IF S = {} THEN {<<>>}
    ELSE LET m == MaxOf({ Len(x) : x \in S })
         IN  UNION { { <<x>> \o r : r \in SortedByLength(S \ {x}) } : x \in { y \in S : Len(y) = m } }

----------------------------------------------------------------------------
(* extract_all_skills, step by step                                        *)

\* job descriptions the extractor is exercised on: up to MaxJobParts parts
MaxJobParts == 2

JobTexts ==
    LET parts == { "Kubernetes", "aws lambda", "C#", ".NET", " ", "\n", "s",
                   "experience with ", "using Docker and ", "- Python (Django)",
                   "1. Go. . ." }
    IN  { Concat(p) : p \in SeqsUpTo(parts, MaxJobParts) }

InitExtract ==
    /\ pc = "extract"
    /\ job_description \in JobTexts
    /\ input_type \in {"str", "object", "none"}
    /\ input_type = "none" => job_description = ""
    /\ found_skills = {}
    /\ all_skills = <<>>
    /\ resume_text = ""
    /\ missing = <<>>
    /\ claude_client = FALSE
    /\ missing_skills = <<>>
    /\ SynthIdle
    /\ UpdateIdle

\* line 154 raises AttributeError for an input without lower(); the handler
\* of lines 209-211 returns []
ExtractLowerRaises ==
    /\ pc = "extract"
    /\ input_type = "none"
    /\ all_skills' = <<>>
    /\ pc' = "extracted"
    /\ UNCHANGED <<job_description, input_type, found_skills, resume_text, missing, synthInputs, synthVars, updateVars>>

\* lines 154-161: the search runs on the string lower() returned
ExtractVocabulary ==
    /\ pc = "extract"
    /\ input_type # "none"
    /\ found_skills' = VocabularyHits(job_description)
    /\ pc' = "patterns"
    /\ UNCHANGED <<job_description, input_type, all_skills, resume_text, missing, synthInputs, synthVars, updateVars>>

\* line 172: re.findall raises TypeError for an input that is no string;
\* the handler of lines 209-211 returns []
ExtractFindallRaises ==
    /\ pc = "patterns"
    /\ input_type # "str"
    /\ all_skills' = <<>>
    /\ pc' = "extracted"
    /\ UNCHANGED <<job_description, input_type, found_skills, resume_text, missing, synthInputs, synthVars, updateVars>>

\* lines 163-181
ExtractPatterns ==
    /\ pc = "patterns"
    /\ input_type = "str"
    /\ found_skills' = found_skills \cup PatternHits(job_description)
    /\ pc' = "bullets"
    /\ UNCHANGED <<job_description, input_type, all_skills, resume_text, missing, synthInputs, synthVars, updateVars>>

\* lines 183-197
ExtractBullets ==
    /\ pc = "bullets"
    /\ found_skills' = found_skills \cup BulletHits(job_description)
    /\ pc' = "cleanup"
    /\ UNCHANGED <<job_description, input_type, all_skills, resume_text, missing, synthInputs, synthVars, updateVars>>

\* lines 199-207
ExtractReturn ==
    /\ pc = "cleanup"
    /\ all_skills' \in SortedByLength(final_skills(found_skills))
    /\ pc' = "extracted"
    /\ UNCHANGED <<job_description, input_type, found_skills, resume_text, missing, synthInputs, synthVars, updateVars>>

NextExtract ==
    \/ ExtractLowerRaises
    \/ ExtractVocabulary
    \/ ExtractFindallRaises
    \/ ExtractPatterns
    \/ ExtractBullets
    \/ ExtractReturn

SpecExtract == InitExtract /\ [][NextExtract]_vars

----------------------------------------------------------------------------
(* find_missing_skills                                                     *)

RECURSIVE find_missing_skills_reversed(_, _)
find_missing_skills_reversed(skills, text) ==
    IF skills = <<>> THEN <<>>
    ELSE LET rest == find_missing_skills_reversed(Tail(skills), text)
         IN  IF ~WordSearch(Lower(text), Lower(Head(skills)))
             THEN rest \o <<Head(skills)>>
             ELSE rest

RECURSIVE find_missing_skills(_, _)
\* the loop of lines 216-220: a skill is appended when the \b...\b search,
\* re.IGNORECASE, finds nothing in the resume text
find_missing_skills(skills, text) ==
    IF skills = <<>> THEN <<>>
    ELSE LET rest == find_missing_skills(Tail(skills), text)
         IN  IF ~WordSearch(Lower(text), Lower(Head(skills)))
             THEN <<Head(skills)>> \o rest
             ELSE rest

\* resume texts and skill lists the gap detector is exercised on
MaxResumeParts == 2
MaxSkillList == 3

ResumeTexts ==
    LET parts == { "Kubernetes", "docker", "Python (Django)", "C#", " ", ".", "s" }
    IN  { Concat(p) : p \in SeqsUpTo(parts, MaxResumeParts) }

InitFind ==
    /\ pc = "find"
    /\ job_description = ""
    /\ input_type = "str"
    /\ found_skills = {}
    /\ all_skills \in SeqsUpTo({ "Kubernetes", "Docker", "Terraform", "Python (Django)",
                                 "C#", "Go" }, MaxSkillList)
    /\ resume_text \in ResumeTexts
    /\ missing = <<>>
    /\ claude_client = FALSE
    /\ missing_skills = <<>>
    /\ SynthIdle
    /\ UpdateIdle

FindMissing ==
    /\ pc = "find"
    /\ missing' = find_missing_skills(all_skills, resume_text)
    /\ pc' = "found"
    /\ UNCHANGED <<job_description, input_type, found_skills, all_skills, resume_text, synthInputs, synthVars, updateVars>>

NextFind == FindMissing

SpecFind == InitFind /\ [][NextFind]_vars

----------------------------------------------------------------------------
(* generate_missing_skills_bullets: the catalog (lines 345-532), as the    *)
(* pairs <<key, template>> in the order of the dict                        *)

skill_templates == <<
    \* AWS Services - Organizations & Governance
    <<"AWS Organizations", "Implemented AWS Organizations with multi-account structure and Service Control Policies (SCPs) to enforce security governance and compliance across 50+ AWS accounts">>,
    <<"Service Control Policies", "Designed and deployed Service Control Policies (SCPs) for centralized governance, enforcing security baselines and regulatory compliance">>,
    <<"SCPs", "Configured SCPs to implement guardrails for cloud resource usage and enforce organizational security policies">>,
    <<"Control Tower", "Deployed AWS Control Tower for automated multi-account governance and standardized account provisioning">>,
    \* AWS Security
    <<"AWS Config", "Configured AWS Config rules with automated remediation for continuous compliance monitoring and infrastructure drift detection">>,
    <<"Security Hub", "Integrated AWS Security Hub for centralized security findings aggregation and automated compliance reporting">>,
    <<"AWS Security Hub", "Deployed AWS Security Hub to aggregate security findings from GuardDuty, Inspector, and Config across multiple accounts">>,
    <<"GuardDuty", "Enabled Amazon GuardDuty for intelligent threat detection and continuous security monitoring">>,
    <<"IAM", "Architected fine-grained IAM policies implementing least-privilege access and role-based access control (RBAC)">>,
    <<"AWS IAM", "Designed comprehensive IAM strategy with automated policy validation and periodic access reviews">>,
    <<"KMS", "Implemented AWS KMS for encryption key management and data protection at rest and in transit">>,
    <<"Secrets Manager", "Deployed AWS Secrets Manager for automated credential rotation and secure application secrets management">>,
    \* AWS Compute & Container
    <<"ECS", "Architected ECS Fargate deployments for containerized microservices with auto-scaling and service discovery">>,
    <<"Fargate", "Migrated applications to ECS Fargate for serverless container orchestration, reducing infrastructure overhead by 40%">>,
    <<"Lambda", "Developed serverless architectures using AWS Lambda with event-driven processing and automatic scaling">>,
    <<"EC2", "Managed EC2 fleet with automated patching, right-sizing recommendations, and reserved instance optimization">>,
    <<"EKS", "Deployed production EKS clusters with managed node groups, pod security policies, and cluster autoscaling">>,
    \* AWS Storage & Database
    <<"S3", "Implemented S3 lifecycle policies, versioning, and cross-region replication for disaster recovery">>,
    <<"Aurora", "Managed Aurora PostgreSQL clusters with automated backups, read replicas, and performance insights">>,
    <<"Aurora PostgreSQL", "Optimized Aurora PostgreSQL databases for high availability with multi-AZ deployment and automated failover">>,
    <<"RDS", "Administered RDS instances with automated backups, performance tuning, and security group hardening">>,
    <<"DynamoDB", "Designed DynamoDB tables with optimized partition keys, GSI/LSI indexes, and on-demand scaling">>,
    <<"EFS", "Deployed EFS for shared persistent storage across containerized applications with automatic scaling">>,
    \* AWS Networking
    <<"VPC", "Architected secure VPC designs with private/public subnets, NAT gateways, and transit gateway connectivity">>,
    <<"CloudFront", "Configured CloudFront distributions with WAF integration, custom SSL certificates, and edge caching">>,
    <<"Route 53", "Managed Route 53 hosted zones with health checks, failover routing, and latency-based routing">>,
    <<"API Gateway", "Built REST and WebSocket APIs using API Gateway with Lambda integration and custom authorizers">>,
    \* AWS Monitoring & Operations
    <<"CloudWatch", "Implemented CloudWatch dashboards, custom metrics, and automated alerting for infrastructure and application monitoring">>,
    <<"CloudTrail", "Configured CloudTrail for audit logging, compliance tracking, and security forensics">>,
    <<"Systems Manager", "Utilized AWS Systems Manager for patch management, configuration compliance, and remote command execution">>,
    <<"Parameter Store", "Managed application configurations using Parameter Store with encryption and version control">>,
    \* Cloud Migration
    <<"Migration", "Led cloud migration initiatives from on-premises to AWS with minimal downtime using AWS Migration Hub and Server Migration Service">>,
    <<"Cloud Migration", "Executed large-scale cloud migration projects including lift-and-shift and re-platforming strategies">>,
    \* IaC Tools
    <<"Terraform", "Developed reusable Terraform modules for infrastructure provisioning with state management and automated planning">>,
    <<"CloudFormation", "Created CloudFormation templates with nested stacks, custom resources, and automated rollback capabilities">>,
    <<"CDK", "Built infrastructure using AWS CDK with TypeScript for type-safe cloud resource definitions">>,
    <<"Pulumi", "Implemented infrastructure as code using Pulumi with Python for multi-cloud deployments">>,
    <<"Infrastructure as Code", "Championed Infrastructure as Code practices using Terraform and GitOps for version-controlled infrastructure">>,
    <<"IaC", "Implemented IaC best practices with modular designs, drift detection, and automated validation">>,
    \* Configuration Management
    <<"Ansible", "Automated server configuration and application deployment using Ansible playbooks with role-based organization">>,
    <<"Chef", "Managed configuration drift using Chef recipes and cookbooks for consistent server provisioning">>,
    <<"Puppet", "Implemented Puppet for configuration management across Linux and Windows server fleets">>,
    \* Containers & Orchestration
    <<"Kubernetes", "Architected production Kubernetes clusters with Helm charts, RBAC, network policies, and persistent storage">>,
    <<"K8s", "Managed multi-tenant Kubernetes environments with namespace isolation and resource quotas">>,
    <<"Docker", "Containerized applications using Docker with multi-stage builds, optimized image layers, and security scanning">>,
    <<"Container", "Implemented container orchestration strategies with health checks, rolling updates, and auto-healing">>,
    <<"Helm", "Created Helm charts for application deployment with templated configurations and release management">>,
    <<"ArgoCD", "Deployed ArgoCD for GitOps-based continuous delivery with automated sync and rollback capabilities">>,
    <<"Argo Workflows", "Orchestrated complex CI/CD workflows using Argo Workflows for parallel job execution">>,
    <<"Flux", "Implemented Flux for GitOps automation with automated image updates and Helm release management">>,
    <<"OpenShift", "Administered OpenShift container platform with integrated CI/CD and developer self-service">>,
    <<"Rancher", "Managed multi-cluster Kubernetes deployments using Rancher for centralized cluster management">>,
    <<"Istio", "Configured Istio service mesh for traffic management, security, and observability in microservices">>,
    <<"Linkerd", "Implemented Linkerd for lightweight service mesh with automatic mTLS and traffic splitting">>,
    \* CI/CD Tools
    <<"Jenkins", "Built Jenkins declarative pipelines with shared libraries, automated testing, and blue-green deployments">>,
    <<"GitHub Actions", "Developed GitHub Actions workflows for automated build, test, and deployment with matrix strategies">>,
    <<"GitLab CI", "Implemented GitLab CI/CD pipelines with dynamic environments, artifact management, and pipeline caching">>,
    <<"GitLab", "Managed GitLab repositories with branch protection, merge request approvals, and CI/CD integration">>,
    <<"CI/CD", "Designed end-to-end CI/CD pipelines with automated testing, security scanning, and progressive delivery">>,
    <<"Pipeline", "Optimized CI/CD pipeline performance reducing build times by 60% through parallelization and caching">>,
    <<"Tekton", "Implemented Tekton pipelines for cloud-native CI/CD with reusable tasks and triggers">>,
    <<"Azure DevOps", "Configured Azure DevOps pipelines with YAML definitions and integration with Azure services">>,
    <<"CircleCI", "Built CircleCI workflows with Docker layer caching and parallel test execution">>,
    <<"CodePipeline", "Designed AWS CodePipeline for automated deployment with multi-stage approval workflows">>,
    <<"CodeBuild", "Configured CodeBuild projects with custom build environments and artifact publishing">>,
    <<"CodeDeploy", "Implemented blue/green deployments using CodeDeploy with automated rollback on failure">>,
    \* Programming & Scripting
    <<"Python", "Developed Python automation tools for infrastructure provisioning, log analysis, and API integration">>,
    <<"Bash", "Authored Bash scripts for system administration, backup automation, and deployment orchestration">>,
    <<"Shell", "Created shell scripts for cron jobs, log rotation, and system health monitoring">>,
    <<"PowerShell", "Wrote PowerShell scripts for Windows server automation and Active Directory management">>,
    <<"Go", "Built CLI tools and microservices in Go for high-performance infrastructure automation">>,
    <<"Golang", "Developed concurrent applications in Golang for distributed systems and API services">>,
    <<"Groovy", "Scripted Jenkins shared libraries using Groovy for reusable pipeline components">>,
    <<"Node.js", "Built serverless functions and APIs using Node.js with Express framework">>,
    \* Monitoring & Observability
    <<"Prometheus", "Deployed Prometheus for metrics collection with custom exporters and alerting rules">>,
    <<"Grafana", "Created Grafana dashboards for real-time infrastructure and application performance visualization">>,
    <<"Loki", "Implemented Grafana Loki for scalable log aggregation and correlation with metrics and traces">>,
    <<"Tempo", "Deployed Grafana Tempo for distributed tracing with seamless Grafana integration and span storage">>,
    <<"DataDog", "Implemented DataDog for full-stack observability with APM, logs, and infrastructure monitoring">>,
    <<"ELK", "Built centralized logging platform using ELK stack with custom parsers and retention policies">>,
    <<"Elasticsearch", "Managed Elasticsearch clusters for log aggregation and full-text search capabilities">>,
    <<"Splunk", "Configured Splunk for security event correlation and compliance reporting">>,
    <<"New Relic", "Integrated New Relic APM for application performance monitoring and transaction tracing">>,
    <<"Jaeger", "Implemented distributed tracing using Jaeger for microservices troubleshooting">>,
    \* Messaging & Streaming
    <<"Kafka", "Architected Kafka clusters for high-throughput event streaming with topic partitioning and replication">>,
    <<"Apache Kafka", "Managed Apache Kafka deployments with Schema Registry and Kafka Connect for data integration">>,
    <<"Kinesis", "Built real-time data pipelines using Kinesis Data Streams with Lambda consumers">>,
    <<"RabbitMQ", "Deployed RabbitMQ for reliable message queuing with high availability and clustering">>,
    <<"Redis", "Implemented Redis for caching, session management, and pub/sub messaging patterns">>,
    \* Databases
    <<"PostgreSQL", "Administered PostgreSQL databases with replication, backup strategies, and query optimization">>,
    <<"MySQL", "Managed MySQL databases with master-slave replication and performance tuning">>,
    <<"MongoDB", "Deployed MongoDB replica sets with sharding for horizontal scalability">>,
    <<"SQL", "Optimized complex SQL queries and designed normalized database schemas">>,
    <<"NoSQL", "Architected NoSQL solutions for high-scale applications with eventual consistency patterns">>,
    \* Security & Compliance
    <<"DevSecOps", "Integrated security into CI/CD pipelines with SAST/DAST scanning and vulnerability management">>,
    <<"Security governance", "Established security governance frameworks with automated compliance checks and audit trails">>,
    <<"Compliance", "Ensured SOC2, HIPAA, and PCI-DSS compliance through automated controls and regular audits">>,
    <<"IQ scripts", "Developed IQ scripts for custom security policy validation and automated compliance reporting">>,
    <<"Snyk", "Integrated Snyk for container and dependency vulnerability scanning in CI/CD pipelines">>,
    <<"Vault", "Deployed HashiCorp Vault for secrets management with dynamic credentials and encryption as a service">>,
    <<"HashiCorp Vault", "Implemented Vault for centralized secrets storage with automated secret rotation">>,
    <<"OPA", "Configured Open Policy Agent for policy-based access control in Kubernetes">>,
    \* Architectures & Patterns
    <<"Microservices", "Designed microservices architecture with service discovery, circuit breakers, and event-driven communication">>,
    <<"API", "Built RESTful APIs with OpenAPI specifications, rate limiting, and OAuth2 authentication">>,
    <<"REST API", "Developed REST APIs following best practices with versioning and comprehensive documentation">>,
    <<"GraphQL", "Implemented GraphQL APIs with schema stitching and efficient data fetching">>,
    <<"Serverless", "Architected serverless applications using Lambda, API Gateway, and DynamoDB for auto-scaling">>,
    <<"Event-driven", "Designed event-driven architectures using SNS/SQS with loose coupling and async processing">>,
    <<"BFF", "Implemented Backend for Frontend pattern for optimized mobile and web API experiences">>,
    \* Methodologies
    <<"Agile", "Led Agile development practices with sprint planning, daily standups, and retrospectives">>,
    <<"SAFe", "Practiced SAFe Agile framework for large-scale program coordination and release planning">>,
    <<"Scrum", "Facilitated Scrum ceremonies as Scrum Master ensuring team velocity and continuous improvement">>,
    <<"DevOps", "Championed DevOps culture fostering collaboration between development and operations teams">>,
    <<"GitOps", "Implemented GitOps principles using Git as single source of truth for declarative infrastructure">>,
    <<"SRE", "Applied Site Reliability Engineering practices with SLOs, error budgets, and blameless postmortems">>,
    \* Version Control & Collaboration
    <<"Git", "Managed Git workflows with branching strategies, pull request reviews, and merge conflict resolution">>,
    <<"GitHub", "Administered GitHub organizations with branch protection rules and required status checks">>,
    <<"Jira", "Tracked project delivery using Jira with custom workflows and automated reporting">>,
    <<"Confluence", "Maintained technical documentation in Confluence for runbooks and architecture decisions">>,
    <<"ServiceNow", "Managed incident and change requests through ServiceNow with ITIL compliance">>,
    \* Web Servers & Load Balancing
    <<"Nginx", "Configured Nginx as reverse proxy and load balancer with SSL termination and rate limiting">>,
    <<"Apache", "Administered Apache web servers with virtual hosts, mod_rewrite rules, and security hardening">>,
    <<"HAProxy", "Deployed HAProxy for high-availability load balancing with health checks and session persistence">>,
    \* Testing
    <<"Selenium", "Automated browser testing using Selenium WebDriver for end-to-end UI validation">>,
    <<"pytest", "Wrote comprehensive unit and integration tests using pytest with fixtures and mocking">>,
    <<"Load testing", "Performed load testing using JMeter to identify performance bottlenecks and capacity limits">>,
    \* Networking
    <<"DNS", "Managed DNS infrastructure with DNSSEC, zone transfers, and GeoDNS for global traffic distribution">>,
    <<"Load balancing", "Implemented application load balancing with health checks and sticky sessions">>,
    <<"VPN", "Configured site-to-site and client VPN solutions for secure remote access">>,
    <<"SSL", "Managed SSL/TLS certificates with automated renewal using Let's Encrypt and ACM">>,
    \* Operating Systems
    <<"Linux", "Administered Linux servers (RHEL, Ubuntu) with kernel tuning, security patching, and troubleshooting">>,
    <<"RHEL", "Managed Red Hat Enterprise Linux systems with subscription management and satellite integration">>,
    <<"Ubuntu", "Deployed Ubuntu server infrastructure with unattended upgrades and landscape management">>,
    \* Cost Optimization
    <<"AWS cost optimization", "Reduced AWS costs by 35% through reserved instances, spot instances, and resource right-sizing">>,
    <<"cost optimization", "Implemented FinOps practices with cost allocation tags, budget alerts, and optimization recommendations">>,
    \* Additional
    <<"Automation", "Automated repetitive operational tasks reducing manual effort by 70% and improving reliability">>,
    <<"Orchestration", "Orchestrated complex multi-tier application deployments with zero-downtime strategies">>
>>

\* template_skill.lower() of every catalog key (lines 550, 559)
template_keys_lower == [ i \in DOMAIN skill_templates |-> Lower(skill_templates[i][1]) ]

\* the prefix of f'•   {template_bullet}' (lines 551, 560, 586)
BulletPrefix == "@   "

\* lines 549-554: the first catalog entry whose key equals the skill, or 0
ExactMatch(skill_lower) ==
    LET hits == { i \in DOMAIN skill_templates : template_keys_lower[i] = skill_lower }
    IN  IF hits = {} THEN 0 ELSE MinOf(hits)

\* lines 558-563 with the test "template_skill.lower() in skill_lower" left out
PartialMatchOneWay(skill_lower) ==
    LET hits == { i \in DOMAIN skill_templates : Contains(template_keys_lower[i], skill_lower) }
    IN  IF hits = {} THEN 0 ELSE MinOf(hits)

\* lines 558-563: the first catalog entry whose key contains the skill or
\* is contained in it, or 0
PartialMatch(skill_lower) ==
    LET hits == { i \in DOMAIN skill_templates :
                    \/ Contains(template_keys_lower[i], skill_lower)
                    \/ Contains(skill_lower, template_keys_lower[i]) }
    IN  IF hits = {} THEN 0 ELSE MinOf(hits)

\* lines 545-563 with one loop that takes the first exact or partial match
TemplateOfOneLoop(skill) ==
    LET sl == Lower(skill)
        hits == { i \in DOMAIN skill_templates :
                    \/ template_keys_lower[i] = sl
                    \/ Contains(template_keys_lower[i], sl)
                    \/ Contains(sl, template_keys_lower[i]) }
    IN  IF hits = {} THEN 0 ELSE MinOf(hits)

\* lines 545-563 for one skill: the catalog entry used, or 0 (unmatched)
TemplateOf(skill) ==
    LET sl == Lower(skill)
    IN  IF ExactMatch(sl) # 0 THEN ExactMatch(sl) ELSE PartialMatch(sl)

\* missing_skills[:15] (line 536)
ProcessLimit == 15
\* line 536 without the limit
skills_to_process_unlimited(skills) == skills

skills_to_process(skills) == SubSeq(skills, 1, IF Len(skills) < ProcessLimit THEN Len(skills) ELSE ProcessLimit)

RECURSIVE Categorize(_)
\* the loop of lines 544-566: the bullets of the template-matched skills,
\* those skills, and the skills no template matches
Categorize(skills) ==
    IF skills = <<>>
    THEN [template_bullets |-> <<>>, template_matched_skills |-> <<>>, unmatched_skills |-> <<>>]
    ELSE LET rest == Categorize(Tail(skills))
             k == TemplateOf(Head(skills))
         IN  IF k # 0
             THEN [rest EXCEPT
                     !.template_bullets = <<BulletPrefix \o skill_templates[k][2]>> \o @,
                     !.template_matched_skills = <<Head(skills)>> \o @]
             ELSE [rest EXCEPT !.unmatched_skills = <<Head(skills)>> \o @]

----------------------------------------------------------------------------
(* generate_bullets_with_claude                                            *)

\* line 236
max_retries == 5
\* line 237
base_wait == 2
\* missing_skills[:10] (line 242)
GenerateLimit == 10

skills_to_generate(skills) == SubSeq(skills, 1, IF Len(skills) < GenerateLimit THEN Len(skills) ELSE GenerateLimit)

RECURSIVE Pow2(_)
Pow2(n) == IF n = 0 THEN 1 ELSE 2 * Pow2(n - 1)

\* line 318 with the attempts counted from 1
wait_time_from_one(k) == base_wait * Pow2(k + 1)

\* base_wait * (2 ** attempt) (line 318)
wait_time(k) == base_wait * Pow2(k)

RECURSIVE SplitLines(_)
\* content.split('\n') (line 287)
SplitLines(s) ==
    LET nl == { i \in 1..Len(s) : Ch(s, i) = "\n" }
    IN  IF nl = {} THEN <<s>>
        ELSE <<SubSeq(s, 1, MinOf(nl) - 1)>> \o SplitLines(SubSeq(s, MinOf(nl) + 1, Len(s)))

RECURSIVE StripPrefixes(_, _)
\* lines 290-292: each prefix in turn is cut off when the line starts with it
StripPrefixes(line, prefixes) ==
    IF prefixes = <<>> THEN line
    ELSE StripPrefixes(IF line # "" /\ Ch(line, 1) = Head(prefixes)
                       THEN Strip(Tail(line)) ELSE line,
                       Tail(prefixes))

\* re.sub(r'^\d+[\.)]\s*', '', line) (line 295)
StripNumbering(line) ==
    LET n == ClassRun(line, 1, Digits)
    IN  IF n >= 1 /\ n < Len(line) /\ Ch(line, n + 1) \in {".", ")"}
        THEN SubSeq(line, n + 2 + ClassRun(line, n + 2, SpaceChars), Len(line))
        ELSE line

RECURSIVE RemoveBold(_)
\* re.sub(r'\*\*(.*?)\*\*', r'\1', line) (line 297)
RemoveBold(line) ==
    LET open == { i \in 1..(Len(line) - 1) : SubSeq(line, i, i + 1) = "**" }
        i == MinOf(open)
        close == { j \in open : j >= i + 2 }
        j == MinOf(close)
    IN  IF open = {} \/ close = {} THEN line
        ELSE SubSeq(line, 1, i - 1) \o SubSeq(line, i + 2, j - 1)
             \o RemoveBold(SubSeq(line, j + 2, Len(line)))

\* len(line.split()) (line 300): the runs of characters that are no white space
WordCount(line) ==
    Cardinality({ i \in 1..Len(line) :
                    /\ Ch(line, i) \notin SpaceChars
                    /\ (i = 1 \/ Ch(line, i - 1) \in SpaceChars) })

\* lines 288-297 for one line; the prefixes of line 290 are
\* ['•', '-', '*', '▪', '○', '●', '→'], the characters outside ASCII written
\* "@", "~", "^", "=", "|"
CleanLine(line) ==
    RemoveBold(StripNumbering(StripPrefixes(Strip(line),
                                            <<"@", "-", "*", "~", "^", "=", "|">>)))

RECURSIVE KeepLines(_)
\* lines 287-301: the cleaned lines of at least 8 words
KeepLines(lines) ==
    IF lines = <<>> THEN <<>>
    ELSE LET line == CleanLine(Head(lines))
         IN  IF line # "" /\ WordCount(line) >= 8
             THEN <<line>> \o KeepLines(Tail(lines))
             ELSE KeepLines(Tail(lines))

\* lines 279-301: the bullets parsed from the response text
ParseReply(text) == KeepLines(SplitLines(Strip(text)))

\* lines 281-282 and 304-305: the response is rejected (ValueError) when it
\* is empty or holds fewer than half as many bullets as skills were requested
ReplyRejected(text, requested) ==
    \/ Strip(text) = ""
    \/ 2 * Len(ParseReply(text)) < Len(requested)

\* line 314 without the slice
ReplyBulletsUncut(text, requested) == ParseReply(text)

\* line 314: bullets[:len(skills_to_generate)]
ReplyBullets(text, requested) ==
    LET b == ParseReply(text)
    IN  SubSeq(b, 1, IF Len(b) < Len(requested) THEN Len(b) ELSE Len(requested))

\* line 593 with the two lists the other way round
CombineGeneratorFirst(tb, ab) == ab \o tb

\* line 593: bullets = template_bullets + api_bullets
Combine(tb, ab) == tb \o ab

\* lines 584-588: the prefix is added unless the bullet starts with '•'
WithPrefix(raw) ==
    [ i \in 1..Len(raw) |-> IF Ch(raw[i], 1) = "@" THEN raw[i] ELSE BulletPrefix \o raw[i] ]

----------------------------------------------------------------------------
(* The responses of the text generator.  The generator is outside the      *)
(* program: it fails, or returns a text.  The texts are built from one     *)
(* sentence per requested skill, the first k of them, in one of the line   *)
(* styles, after an optional heading line.                                 *)

GenSentence(skill) ==
    "Delivered " \o skill \o " solutions for large teams across many production environments"

NumStr(i) ==
    IF i < 10 THEN Ch(DigitChars, i + 1)
    ELSE Ch(DigitChars, (i \div 10) + 1) \o Ch(DigitChars, (i % 10) + 1)

StyledLine(style, i, skill) ==
    CASE style = "plain"    -> GenSentence(skill)
      [] style = "numbered" -> NumStr(i) \o ". " \o GenSentence(skill)
      [] style = "dashed"   -> "- " \o GenSentence(skill)
      [] style = "marked"   -> "-@ " \o GenSentence(skill)
      [] style = "bold"     -> "**" \o skill \o "**: " \o GenSentence(skill)

RECURSIVE JoinLines(_)
\* '\n'.join(lines)
JoinLines(lines) ==
    IF lines = <<>> THEN ""
    ELSE IF Len(lines) = 1 THEN lines[1]
    ELSE Head(lines) \o "\n" \o JoinLines(Tail(lines))

Reverse(q) == [ i \in 1..Len(q) |-> q[Len(q) + 1 - i] ]

\* the lines of a response: sentences for the first k requested skills, in
\* the order requested or in the opposite order
ReplyLines(requested, k, style, backwards) ==
    IF backwards THEN Reverse([ i \in 1..k |-> StyledLine(style, i, requested[i]) ])
    ELSE [ i \in 1..k |-> StyledLine(style, i, requested[i]) ]

Replies(requested) ==
    { h \o JoinLines(ReplyLines(requested, k, style, backwards)) :
        h \in {"", "Here are the resume bullet points that you asked for:\n"},
        k \in 0..Len(requested),
        style \in {"plain", "numbered", "dashed", "marked", "bold"},
        backwards \in BOOLEAN }

----------------------------------------------------------------------------
(* generate_missing_skills_bullets and generate_bullets_with_claude, step  *)
(* by step                                                                 *)

\* gap lists the synthesizer is exercised on: every list of up to MaxGaps
\* skills of a pool, the first k catalog keys for k up to MaxLongGaps, and
\* the first k of the unmatched vocabulary entries for k up to MaxUnmatched
MaxGaps == 2
MaxLongGaps == 16
MaxUnmatched == 11

GapLists ==
    LET pool == { "Terraform", "AWS Security Hub", "Quantum Flux Capacitor Tuning", "GCP",
                  "SNS" }
        \* vocabulary entries no catalog key matches
        unmatched == <<"GCP", "Multi-cloud", "SNS", "SQS", "Elastic Beanstalk", "Glacier",
                       "CRI-O", "Kustomize", "Service Mesh", "Continuous Integration",
                       "Continuous Deployment", "Bamboo", "TeamCity", "Travis CI">>
    IN  SeqsUpTo(pool, MaxGaps)
        \cup { [ i \in 1..k |-> skill_templates[i][1] ] : k \in (ProcessLimit - 1)..MaxLongGaps }
        \cup { SubSeq(unmatched, 1, k) : k \in (GenerateLimit + 1)..MaxUnmatched }

InitSynth ==
    /\ pc = "synth"
    /\ job_description = ""
    /\ input_type = "str"
    /\ found_skills = {}
    /\ all_skills = <<>>
    /\ resume_text = ""
    /\ missing = <<>>
    /\ claude_client \in BOOLEAN
    /\ missing_skills \in GapLists
    /\ SynthIdle
    /\ UpdateIdle

\* lines 338-339: no missing skills, no bullets
SynthNothing ==
    /\ pc = "synth"
    /\ missing_skills = <<>>
    /\ bullets' = <<>>
    /\ pc' = "synth_done"
    /\ UNCHANGED <<parseVars, updateVars, synthInputs, template_bullets, template_matched_skills,
                   unmatched_skills, attempt, slept, content, api_bullets, error>>

\* lines 534-569
CategorizeSkills ==
    /\ pc = "synth"
    /\ missing_skills # <<>>
    /\ LET c == Categorize(skills_to_process(missing_skills))
       IN  /\ template_bullets' = c.template_bullets
           /\ template_matched_skills' = c.template_matched_skills
           /\ unmatched_skills' = c.unmatched_skills
    /\ pc' = "categorized"
    /\ UNCHANGED <<parseVars, updateVars, synthInputs, attempt, slept, content, api_bullets, bullets, error>>

\* lines 572-573 and 592-599: every skill matched a template
ReturnTemplateBullets ==
    /\ pc = "categorized"
    /\ unmatched_skills = <<>>
    /\ bullets' = Combine(template_bullets, api_bullets)
    /\ pc' = "synth_done"
    /\ UNCHANGED <<parseVars, updateVars, synthInputs, template_bullets, template_matched_skills,
                   unmatched_skills, attempt, slept, content, api_bullets, error>>

\* lines 573-575 with the template bullets returned instead of the raise
NoClientKeepingTemplates ==
    /\ pc = "categorized"
    /\ unmatched_skills # <<>>
    /\ ~claude_client
    /\ error' = "no_client"
    /\ bullets' = template_bullets
    /\ pc' = "synth_done"
    /\ UNCHANGED <<parseVars, updateVars, synthInputs, template_bullets, template_matched_skills,
                   unmatched_skills, attempt, slept, content, api_bullets>>

\* lines 573-575 and 601-605: unmatched skills and no client; the
\* RuntimeError is caught and the empty list returned
NoClient ==
    /\ pc = "categorized"
    /\ unmatched_skills # <<>>
    /\ ~claude_client
    /\ error' = "no_client"
    /\ bullets' = <<>>
    /\ pc' = "synth_done"
    /\ UNCHANGED <<parseVars, updateVars, synthInputs, template_bullets, template_matched_skills,
                   unmatched_skills, attempt, slept, content, api_bullets>>

\* lines 577-581 and 227-239: generate_bullets_with_claude is entered
StartGenerator ==
    /\ pc = "categorized"
    /\ unmatched_skills # <<>>
    /\ claude_client
    /\ attempt' = 0
    /\ pc' = "attempt"
    /\ UNCHANGED <<parseVars, updateVars, synthInputs, template_bullets, template_matched_skills,
                   unmatched_skills, slept, content, api_bullets, bullets, error>>

\* lines 316-324 with the test "attempt < max_retries" for line 321
RetryAfterOneMore(failed) ==
    /\ failed
    /\ attempt < max_retries
    /\ slept' = Append(slept, wait_time(attempt))
    /\ attempt' = attempt + 1
    /\ pc' = "attempt"
    /\ UNCHANGED <<parseVars, updateVars, synthInputs, template_bullets, template_matched_skills,
                   unmatched_skills, content, api_bullets, bullets, error>>

\* lines 316-330: an attempt failed; sleep and try again
RetryAfter(failed) ==
    /\ failed
    /\ attempt < max_retries - 1
    /\ slept' = Append(slept, wait_time(attempt))
    /\ attempt' = attempt + 1
    /\ pc' = "attempt"
    /\ UNCHANGED <<parseVars, updateVars, synthInputs, template_bullets, template_matched_skills,
                   unmatched_skills, content, api_bullets, bullets, error>>

\* lines 326-330 and 601-605: the last attempt failed; the RuntimeError
\* leaves generate_bullets_with_claude, is caught in
\* generate_missing_skills_bullets, and the empty list is returned
GiveUpAfter(failed) ==
    /\ failed
    /\ attempt = max_retries - 1
    /\ attempt' = attempt + 1
    /\ error' = "generator_failed"
    /\ bullets' = <<>>
    /\ pc' = "synth_done"
    /\ UNCHANGED <<parseVars, updateVars, synthInputs, template_bullets, template_matched_skills,
                   unmatched_skills, slept, content, api_bullets>>

\* lines 267-276: the call raises (network error, timeout, API error)
AttemptRaises ==
    /\ pc = "attempt"
    /\ (RetryAfter(TRUE) \/ GiveUpAfter(TRUE))

\* lines 279-305: the call returns a text that is rejected
AttemptRejected ==
    /\ pc = "attempt"
    /\ \E text \in Replies(skills_to_generate(unmatched_skills)) :
          LET failed == ReplyRejected(text, skills_to_generate(unmatched_skills))
          IN  RetryAfter(failed) \/ GiveUpAfter(failed)

\* lines 279-314, 584-599: the call returns a text that is accepted; its
\* bullets are prefixed and returned after the template bullets
AttemptSucceeds ==
    /\ pc = "attempt"
    /\ \E text \in Replies(skills_to_generate(unmatched_skills)) :
          /\ ~ReplyRejected(text, skills_to_generate(unmatched_skills))
          /\ content' = text
          /\ api_bullets' = WithPrefix(ReplyBullets(text, skills_to_generate(unmatched_skills)))
    /\ bullets' = Combine(template_bullets, api_bullets')
    /\ attempt' = attempt + 1
    /\ pc' = "synth_done"
    /\ UNCHANGED <<parseVars, updateVars, synthInputs, template_bullets, template_matched_skills,
                   unmatched_skills, slept, error>>

NextSynth ==
    \/ SynthNothing
    \/ CategorizeSkills
    \/ ReturnTemplateBullets
    \/ NoClient
    \/ StartGenerator
    \/ AttemptRaises
    \/ AttemptRejected
    \/ AttemptSucceeds

SpecSynth == InitSynth /\ [][NextSynth]_vars

\* a step of the running method: every step of NextSynth moves pc or counts
\* an attempt
SynthStep ==
    /\ pc \in {"synth", "categorized", "attempt"}
    /\ pc' \in {"categorized", "attempt", "synth_done"}
    /\ attempt' \in 0..max_retries

\* The method keeps running until it ends: every call of the generator
\* returns or raises within its timeout (line 275) and every sleep ends
\* (line 324).
FairSpecSynth == SpecSynth /\ WF_<<pc, attempt>>(SynthStep)

----------------------------------------------------------------------------
(* The document: paragraphs (text and style name) and the rows of its      *)
(* tables (the texts of the first two cells).  Fonts, indents and the      *)
(* split of a paragraph into runs carry no text and are left out:          *)
(* make_selective_bold (lines 693-734) rewrites the runs of a paragraph    *)
(* and leaves its text as it was.                                          *)

\* '\n'.join([p.text for p in self.doc.paragraphs]) (lines 629, 1032, 1090)
DocText(d) == JoinLines([ i \in 1..Len(d) |-> d[i].text ])

Paragraphs(texts, style) == [ k \in 1..Len(texts) |-> [text |-> texts[k], style |-> style] ]

\* reference.insert_paragraph_before() for each text of the list in turn:
\* each new paragraph goes directly before the paragraph at position pos, so
\* the texts stand in the document in the order they were inserted
InsertBefore(d, pos, texts, style) ==
    SubSeq(d, 1, pos - 1) \o Paragraphs(texts, style) \o SubSeq(d, pos, Len(d))

\* lines 783-784, 870-871: bullet_text.lstrip('•').strip() when it starts with '•'
StripBullets(bs) ==
    [ k \in 1..Len(bs) |->
        IF bs[k] # "" /\ Ch(bs[k], 1) = "@" THEN Strip(LStrip(bs[k], {"@"})) ELSE bs[k] ]

----------------------------------------------------------------------------
(* parse_requirements: the classification rules of lines 635-687           *)

ClassificationRules == <<
    [category |-> "cloud_services", triggers |-> {"ecs", "fargate"}, tag |-> "ECS Fargate"],
    [category |-> "cloud_services", triggers |-> {"lambda", "serverless"}, tag |-> "Lambda"],
    [category |-> "cloud_services", triggers |-> {"aurora"}, tag |-> "Aurora PostgreSQL"],
    [category |-> "cloud_services", triggers |-> {"dynamodb"}, tag |-> "DynamoDB"],
    [category |-> "cloud_services", triggers |-> {"kinesis"}, tag |-> "Kinesis"],
    [category |-> "containers", triggers |-> {"kubernetes", "k8s"}, tag |-> "Kubernetes"],
    [category |-> "containers", triggers |-> {"docker"}, tag |-> "Docker"],
    [category |-> "containers", triggers |-> {"helm"}, tag |-> "Helm"],
    [category |-> "containers", triggers |-> {"argocd"}, tag |-> "ArgoCD"],
    [category |-> "cicd_tools", triggers |-> {"jenkins"}, tag |-> "Jenkins"],
    [category |-> "cicd_tools", triggers |-> {"github actions"}, tag |-> "GitHub Actions"],
    [category |-> "cicd_tools", triggers |-> {"gitlab"}, tag |-> "GitLab CI/CD"],
    [category |-> "databases", triggers |-> {"postgres"}, tag |-> "PostgreSQL"],
    [category |-> "databases", triggers |-> {"mysql"}, tag |-> "MySQL"],
    [category |-> "databases", triggers |-> {"mongodb"}, tag |-> "MongoDB"],
    [category |-> "messaging", triggers |-> {"kafka"}, tag |-> "Apache Kafka"],
    [category |-> "monitoring", triggers |-> {"prometheus"}, tag |-> "Prometheus"],
    [category |-> "monitoring", triggers |-> {"grafana"}, tag |-> "Grafana"],
    [category |-> "other_skills", triggers |-> {"microservices"}, tag |-> "microservices"],
    [category |-> "other_skills", triggers |-> {"bff"}, tag |-> "BFF"],
    [category |-> "methodologies", triggers |-> {"safe"}, tag |-> "SAFe Agile"] >>

\* the rules of one category as an if/elif chain: the first rule that fires
\* keeps the later ones from being tested
CategoryTagsFirstOnly(category, req_lower) ==
    LET fires(r) == r.category = category /\ \E t \in r.triggers : Contains(req_lower, t)
        fired == SelectSeq(ClassificationRules, fires)
    IN  IF fired = <<>> THEN <<>> ELSE << fired[1].tag >>

\* the tags appended to one category list, in the order of the rules
CategoryTags(category, req_lower) ==
    LET fires(r) == r.category = category /\ \E t \in r.triggers : Contains(req_lower, t)
        fired == SelectSeq(ClassificationRules, fires)
    IN  [ i \in 1..Len(fired) |-> fired[i].tag ]

\* missing_skills[:20] (line 632)
GapLimit == 20

\* lines 625-689 with the whole list of the gap detector stored at line 632
parse_requirements_unbounded(requirements_text, extracted, gaps) ==
    LET req_lower == Lower(requirements_text)
    IN  [cloud_services |-> CategoryTags("cloud_services", req_lower),
         containers |-> CategoryTags("containers", req_lower),
         cicd_tools |-> CategoryTags("cicd_tools", req_lower),
         programming |-> <<>>,
         databases |-> CategoryTags("databases", req_lower),
         monitoring |-> CategoryTags("monitoring", req_lower),
         messaging |-> CategoryTags("messaging", req_lower),
         other_skills |-> CategoryTags("other_skills", req_lower),
         methodologies |-> CategoryTags("methodologies", req_lower),
         missing_skills |-> gaps,
         all_extracted_skills |-> extracted]

\* lines 625-689, given the extractor's list and the gap detector's list
parse_requirements(requirements_text, extracted, gaps) ==
    LET req_lower == Lower(requirements_text)
    IN  [cloud_services |-> CategoryTags("cloud_services", req_lower),
         containers |-> CategoryTags("containers", req_lower),
         cicd_tools |-> CategoryTags("cicd_tools", req_lower),
         programming |-> <<>>,
         databases |-> CategoryTags("databases", req_lower),
         monitoring |-> CategoryTags("monitoring", req_lower),
         messaging |-> CategoryTags("messaging", req_lower),
         other_skills |-> CategoryTags("other_skills", req_lower),
         methodologies |-> CategoryTags("methodologies", req_lower),
         missing_skills |-> SubSeq(gaps, 1, Smaller(Len(gaps), GapLimit)),
         all_extracted_skills |-> extracted]

----------------------------------------------------------------------------
(* insert_summary_bullets (lines 736-824)                                  *)

\* lines 758, 771
IsSectionStart(text) ==
    LET next_text == Upper(Strip(text))
    IN  \/ Contains(next_text, "TECHNICAL SKILLS")
        \/ Contains(next_text, "WORK EXPERIENCE")
        \/ Contains(next_text, "EDUCATION")

\* lines 752, 766
IsSummaryHeading(text) ==
    LET para_text == Upper(Strip(text))
    IN  \/ (Contains(para_text, "BACKGROUND") /\ Contains(para_text, "SUMMARY"))
        \/ Contains(para_text, "PROFESSIONAL SUMMARY")
        \/ para_text = "SUMMARY"

\* lines 755-763, 769-775: the first section start among the 39 paragraphs
\* after the heading at position i, or 0
SectionAfter(d, i) ==
    LET js == { j \in (i + 1)..Smaller(i + 39, Len(d)) : IsSectionStart(d[j].text) }
    IN  IF js = {} THEN 0 ELSE MinOf(js)

\* lines 749-777: the section start after the first summary heading that
\* has one, or 0
SummaryInsertion(d) ==
    LET headings == { i \in 1..Len(d) : IsSummaryHeading(d[i].text) /\ SectionAfter(d, i) # 0 }
    IN  IF headings = {} THEN 0 ELSE SectionAfter(d, MinOf(headings))

NotInserted(d) == [doc |-> d, ok |-> FALSE]

\* the document after the call and the value returned.  The reference
\* paragraph is the one before the section start (lines 760, 772); the bullets
\* are taken last to first (line 781) and each is put directly before it.
insert_summary_bullets(d, bs) ==
    IF bs = <<>> \/ SummaryInsertion(d) = 0 THEN NotInserted(d)
    ELSE [doc |-> InsertBefore(d, SummaryInsertion(d) - 1, StripBullets(Reverse(bs)),
                               d[SummaryInsertion(d) - 1].style),
          ok |-> TRUE]

----------------------------------------------------------------------------
(* insert_job_bullets (lines 826-944)                                      *)

\* lines 853-858
IsAnchor(para_text) ==
    \E keyword \in {"tekton", "argocd", "kubernetes", "flux", "gitops", "pipeline",
                     "deployment", "infrastructure"} : Contains(Lower(para_text), keyword)

\* line 848: a paragraph of style List Paragraph with more than 10 characters
IsBulletParagraph(p) == p.style = "List Paragraph" /\ Len(Strip(p.text)) > 10

\* re.search(r'\b(19|20)\d{2}\b', text) (line 904)
HasYear(text) ==
    \E q \in 1..(Len(text) - 3) :
        /\ Boundary(text, q)
        /\ SubSeq(text, q, q + 1) \in {"19", "20"}
        /\ Ch(text, q + 2) \in Digits
        /\ Ch(text, q + 3) \in Digits
        /\ Boundary(text, q + 4)

\* lines 904-905
IsNextJob(para_text) ==
    \/ HasYear(para_text)
    \/ Contains(para_text, "LLC")
    \/ Contains(para_text, "Inc")
    \/ Contains(para_text, "Corp")

RECURSIVE JobScan(_, _, _, _, _)
\* the loop of lines 844-927 from paragraph j on, for the heading at
\* position i; ref is the last bullet paragraph met, or 0
JobScan(d, bs, i, j, ref) ==
    IF j > Smaller(i + 59, Len(d)) THEN NotInserted(d)
    ELSE IF IsBulletParagraph(d[j]) /\ (IsAnchor(Strip(d[j].text)) \/ j - i <= 3)
    THEN \* lines 861-901: before the paragraph after the bullet, or before
         \* the bullet itself when it is the last paragraph
         [doc |-> InsertBefore(d, IF j + 1 <= Len(d) THEN j + 1 ELSE j,
                               StripBullets(Reverse(bs)), d[j].style),
          ok |-> TRUE]
    ELSE IF j > i /\ IsNextJob(Strip(d[j].text))
    THEN \* lines 904-926: the next job is reached; the bullets go before the
         \* last bullet paragraph met, with their marker
         IF IsBulletParagraph(d[j])
         THEN [doc |-> InsertBefore(d, j, Reverse(bs), d[j].style), ok |-> TRUE]
         ELSE IF ref # 0
         THEN [doc |-> InsertBefore(d, ref, Reverse(bs), d[ref].style), ok |-> TRUE]
         ELSE NotInserted(d)
    ELSE JobScan(d, bs, i, j + 1, IF IsBulletParagraph(d[j]) THEN j ELSE ref)

\* the document after the call and the value returned
insert_job_bullets(d, bs, company_keyword, year) ==
    LET found == { i \in 1..Len(d) :
                     \/ Contains(Lower(d[i].text), Lower(company_keyword))
                     \/ Contains(d[i].text, year) }
    IN  IF bs = <<>> \/ found = {} THEN NotInserted(d)
        ELSE JobScan(d, bs, MinOf(found), MinOf(found), 0)

----------------------------------------------------------------------------
(* update_resume: the search for the most recent job (lines 1067-1085)     *)

\* line 1070
JobYears == <<"2024", "2023", "2022", "2021", "2020">>

\* line 1072
IsJobHeading(text, year) ==
    /\ Contains(text, year)
    /\ \/ Contains(text, "Engineer")
       \/ Contains(text, "Developer")
       \/ Contains(text, "Architect")

\* s.split(sep)[0]
Before(s, sep) ==
    LET at == { i \in 1..Len(s) : LitAt(s, i, sep) }
    IN  IF at = {} THEN s ELSE SubSeq(s, 1, MinOf(at) - 1)

\* para.text.split(',')[0].split('-')[0].strip() (line 1074)
company_name(text) == Strip(Before(Before(text, ","), "-"))

\* the call of line 1075 for year y and paragraph p
JobAttempt(d, bs, y, p) == insert_job_bullets(d, bs, company_name(d[p].text), JobYears[y])

\* of the calls tries[k], in order, the first that returned True
FirstInserted(tries, d) ==
    LET ok == { k \in DOMAIN tries : tries[k].ok }
    IN  IF ok = {} THEN NotInserted(d) ELSE tries[MinOf(ok)]

\* lines 1070-1079: the years in turn and for each the paragraphs in turn;
\* the first call of insert_job_bullets that returns True ends the search
InsertIntoRecentJob(d, bs) ==
    FirstInserted([ y \in 1..Len(JobYears) |->
                        FirstInserted([ p \in 1..Len(d) |->
                                            IF IsJobHeading(d[p].text, JobYears[y])
                                            THEN JobAttempt(d, bs, y, p)
                                            ELSE NotInserted(d) ], d) ], d)

----------------------------------------------------------------------------
(* update_technical_skills (lines 946-980)                                 *)

RECURSIVE JoinComma(_)
\* ', '.join(tags)
JoinComma(tags) ==
    IF tags = <<>> THEN ""
    ELSE IF Len(tags) = 1 THEN tags[1]
    ELSE Head(tags) \o ", " \o JoinComma(Tail(tags))

\* lines 961, 967, 973 without the test "not in content"
NewTagsUnfiltered(tags, cell) == tags

\* [t for t in tags if t not in content] (lines 961, 967, 973)
NewTags(tags, cell) == LET absent(t) == ~Contains(cell, t) IN SelectSeq(tags, absent)

\* cells[1].text = content + ', ' + ', '.join(new) (lines 963, 969, 975)
Appended(row, new) == [row EXCEPT !.content = Strip(row.content) \o ", " \o JoinComma(new)]

\* lines 956-976 for one row
UpdateRow(row, req) ==
    IF Contains(Strip(row.category), "Cloud Technologies") /\ req.cloud_services # <<>>
    THEN IF /\ NewTags(req.cloud_services, Strip(row.content)) # <<>>
            /\ Contains(Strip(row.content), "Amazon Web Services")
         THEN Appended(row, NewTags(req.cloud_services, Strip(row.content)))
         ELSE row
    ELSE IF Contains(Strip(row.category), "CI/CD Tools") /\ req.cicd_tools # <<>>
    THEN IF NewTags(req.cicd_tools, Strip(row.content)) # <<>>
         THEN Appended(row, NewTags(req.cicd_tools, Strip(row.content)))
         ELSE row
    ELSE IF Contains(Strip(row.category), "Databases") /\ req.databases # <<>>
    THEN IF NewTags(req.databases, Strip(row.content)) # <<>>
         THEN Appended(row, NewTags(req.databases, Strip(row.content)))
         ELSE row
    ELSE row

update_technical_skills(tbl, req) == [ i \in 1..Len(tbl) |-> UpdateRow(tbl[i], req) ]

----------------------------------------------------------------------------
(* verify_keywords_added (lines 995-1020)                                  *)

verify_keywords_added(original, updated, skills) ==
    LET was_present(skill) == Contains(Lower(original), Lower(skill))
        is_present(skill) == Contains(Lower(updated), Lower(skill))
        added(skill) == is_present(skill) /\ ~was_present(skill)
        already(skill) == is_present(skill) /\ was_present(skill)
        absent(skill) == ~is_present(skill)
    IN  [added |-> SelectSeq(skills, added),
         already_present |-> SelectSeq(skills, already),
         not_added |-> SelectSeq(skills, absent)]

\* line 1053 with the shares exchanged: 60% to the summary
split_point_sixty(n) == IF (n * 6) \div 10 > 1 THEN (n * 6) \div 10 ELSE 1

\* lines 1053-1055: the summary's share and the job's share of the bullets
split_point(n) == IF (n * 4) \div 10 > 1 THEN (n * 4) \div 10 ELSE 1

----------------------------------------------------------------------------
(* update_resume, step by step (lines 1022-1129)                           *)

\* resumes update_resume is exercised on
Resumes ==
  LET Para(text) == [text |-> text, style |-> "Normal"]
      Item(text) == [text |-> text, style |-> "List Paragraph"]
      Row(cell0, cell1) == [category |-> cell0, content |-> cell1]
  IN {
    \* a summary, the section headings, a job of 2024 with an anchor bullet,
    \* and a skills table
    [paragraphs |-> << Para("PROFESSIONAL SUMMARY"),
                       Item("Engineer with Docker and ECS experience"),
                       Para("TECHNICAL SKILLS"),
                       Para("WORK EXPERIENCE"),
                       Para("Acme Corp, Senior DevOps Engineer - 2024"),
                       Item("Built the deployment pipeline"),
                       Para("EDUCATION") >>,
     rows |-> << Row("Cloud Technologies", "Amazon Web Services (EC2, S3)"),
                 Row("CI/CD Tools", "Jenkins"),
                 Row("Databases", "MySQL") >>],
    \* no summary heading and no job
    [paragraphs |-> << Para("Jane Doe"), Para("Docker and Terraform") >>,
     rows |-> << >>],
    \* a summary heading right before the next section, a job of 2022 whose
    \* bullets come late and hold no anchor word, then the next job
    [paragraphs |-> << Para("Background Summary"),
                       Para("WORK EXPERIENCE"),
                       Para("Initech - Software Developer, 2022"),
                       Para("Remote"),
                       Para("Full time"),
                       Para("Team of five"),
                       Item("Wrote billing services"),
                       Item("Maintained servers and tools"),
                       Para("Globex LLC"),
                       Item("Answered support calls") >>,
     rows |-> << Row("Cloud Technologies", "Azure") >>] }

\* job descriptions update_resume is exercised on
JobPostings == { "", "K8s", "ECS", "Terraform, Helm and GCP",
                 "Kubernetes, Jenkins, Ansible, Helm, Go", "Jenkins, Postgres and ECS" }

Init ==
    /\ pc = "load"
    /\ job_description \in JobPostings
    /\ input_type = "str"
    /\ \E r \in Resumes : doc = r.paragraphs /\ table = r.rows
    /\ claude_client \in BOOLEAN
    /\ found_skills = {}
    /\ all_skills = <<>>
    /\ resume_text = ""
    /\ missing = <<>>
    /\ missing_skills = <<>>
    /\ SynthIdle
    /\ RunIdle

\* lines 1029-1032
LoadResume ==
    /\ pc = "load"
    /\ original_text' = DocText(doc)
    /\ pc' = "parse"
    /\ UNCHANGED <<parseVars, synthInputs, synthVars, doc, table, requirements,
                   generated_bullets, summary_bullets, job_bullets, job_inserted,
                   verification, saved, result>>

\* line 1034: parse_requirements with its calls of extract_all_skills and
\* find_missing_skills
ParseRequirements ==
    /\ pc = "parse"
    /\ found_skills' = VocabularyHits(job_description) \cup PatternHits(job_description)
                       \cup BulletHits(job_description)
    /\ all_skills' \in SortedByLength(final_skills(found_skills'))
    /\ resume_text' = DocText(doc)
    /\ missing' = find_missing_skills(all_skills', resume_text')
    /\ requirements' = parse_requirements(job_description, all_skills', missing')
    /\ pc' = "parsed"
    /\ UNCHANGED <<job_description, input_type, synthInputs, synthVars, doc, table, original_text,
                   generated_bullets, summary_bullets, job_bullets, job_inserted,
                   verification, saved, result>>

\* lines 1036-1038
NoRelevantSkills ==
    /\ pc = "parsed"
    /\ requirements.missing_skills = <<>>
    /\ requirements.cloud_services = <<>>
    /\ result' = <<"None", <<>>>>
    /\ pc' = "returned"
    /\ UNCHANGED <<parseVars, synthInputs, synthVars, doc, table, original_text, requirements,
                   generated_bullets, summary_bullets, job_bullets, job_inserted,
                   verification, saved>>

\* lines 1041-1049: generate_missing_skills_bullets is called
CallSynthesizer ==
    /\ pc = "parsed"
    /\ requirements.missing_skills # <<>>
    /\ missing_skills' = requirements.missing_skills
    /\ pc' = "synth"
    /\ UNCHANGED <<parseVars, claude_client, synthVars, updateVars>>

\* lines 1044-1045, 1060-1062: no missing skills, so no bullets
SkipSynthesizer ==
    /\ pc = "parsed"
    /\ requirements.missing_skills = <<>>
    /\ requirements.cloud_services # <<>>
    /\ generated_bullets' = <<>>
    /\ summary_bullets' = <<>>
    /\ job_bullets' = <<>>
    /\ pc' = "insert_summary"
    /\ UNCHANGED <<parseVars, synthInputs, synthVars, doc, table, original_text, requirements,
                   job_inserted, verification, saved, result>>

\* lines 1046-1062: the synthesizer has returned; its bullets are split
SplitBullets ==
    /\ pc = "synth_done"
    /\ generated_bullets' = bullets
    /\ summary_bullets' = IF bullets = <<>> THEN <<>>
                          ELSE SubSeq(bullets, 1, split_point(Len(bullets)))
    /\ job_bullets' = IF bullets = <<>> THEN <<>>
                      ELSE SubSeq(bullets, split_point(Len(bullets)) + 1, Len(bullets))
    /\ pc' = "insert_summary"
    /\ UNCHANGED <<parseVars, synthInputs, synthVars, doc, table, original_text, requirements,
                   job_inserted, verification, saved, result>>

\* line 1065
InsertSummary ==
    /\ pc = "insert_summary"
    /\ doc' = insert_summary_bullets(doc, summary_bullets).doc
    /\ pc' = "insert_job"
    /\ UNCHANGED <<parseVars, synthInputs, synthVars, table, original_text, requirements,
                   generated_bullets, summary_bullets, job_bullets, job_inserted,
                   verification, saved, result>>

\* line 1067: no job bullets
NoJobBullets ==
    /\ pc = "insert_job"
    /\ job_bullets = <<>>
    /\ pc' = "tables"
    /\ UNCHANGED <<parseVars, synthInputs, synthVars, updateVars>>

\* lines 1067-1085 without the test of line 1081: the job bullets go to the
\* summary as well
InsertJobBulletsAndSummary ==
    /\ pc = "insert_job"
    /\ job_bullets # <<>>
    /\ InsertIntoRecentJob(doc, job_bullets).ok
    /\ doc' = insert_summary_bullets(InsertIntoRecentJob(doc, job_bullets).doc, job_bullets).doc
    /\ job_inserted' = TRUE
    /\ pc' = "tables"
    /\ UNCHANGED <<parseVars, synthInputs, synthVars, table, original_text, requirements,
                   generated_bullets, summary_bullets, job_bullets, verification, saved, result>>

\* lines 1067-1079: a call of insert_job_bullets returned True
InsertJobBullets ==
    /\ pc = "insert_job"
    /\ job_bullets # <<>>
    /\ InsertIntoRecentJob(doc, job_bullets).ok
    /\ doc' = InsertIntoRecentJob(doc, job_bullets).doc
    /\ job_inserted' = TRUE
    /\ pc' = "tables"
    /\ UNCHANGED <<parseVars, synthInputs, synthVars, table, original_text, requirements,
                   generated_bullets, summary_bullets, job_bullets, verification, saved, result>>

\* lines 1081-1085: no call returned True; the job bullets go to the summary
JobBulletsToSummary ==
    /\ pc = "insert_job"
    /\ job_bullets # <<>>
    /\ ~InsertIntoRecentJob(doc, job_bullets).ok
    /\ doc' = insert_summary_bullets(doc, job_bullets).doc
    /\ pc' = "tables"
    /\ UNCHANGED <<parseVars, synthInputs, synthVars, table, original_text, requirements,
                   generated_bullets, summary_bullets, job_bullets, job_inserted,
                   verification, saved, result>>

\* line 1087
UpdateTechnicalSkills ==
    /\ pc = "tables"
    /\ table' = update_technical_skills(table, requirements)
    /\ pc' = "verify"
    /\ UNCHANGED <<parseVars, synthInputs, synthVars, doc, original_text, requirements,
                   generated_bullets, summary_bullets, job_bullets, job_inserted,
                   verification, saved, result>>

\* lines 1090-1093
VerifyKeywords ==
    /\ pc = "verify"
    /\ verification' = verify_keywords_added(original_text, DocText(doc),
                                            requirements.missing_skills)
    /\ pc' = "save"
    /\ UNCHANGED <<parseVars, synthInputs, synthVars, doc, table, original_text, requirements,
                   generated_bullets, summary_bullets, job_bullets, job_inserted, saved,
                   result>>

\* lines 1117-1123 and 982-993: the document is written and its path returned
SaveResume ==
    /\ pc = "save"
    /\ saved' = Append(saved, [paragraphs |-> doc, rows |-> table])
    /\ result' = <<"output_path", verification.added>>
    /\ pc' = "returned"
    /\ UNCHANGED <<parseVars, synthInputs, synthVars, doc, table, original_text, requirements,
                   generated_bullets, summary_bullets, job_bullets, job_inserted,
                   verification>>

\* lines 1117, 1125-1129 with the exception raised after the document was
\* written
SaveFailsAfterWriting ==
    /\ pc = "save"
    /\ saved' = Append(saved, [paragraphs |-> doc, rows |-> table])
    /\ result' = <<"None", <<>>>>
    /\ pc' = "returned"
    /\ UNCHANGED <<parseVars, synthInputs, synthVars, doc, table, original_text, requirements,
                   generated_bullets, summary_bullets, job_bullets, job_inserted,
                   verification>>

\* lines 1117, 1125-1129: writing the document raises; (None, []) is returned
SaveFails ==
    /\ pc = "save"
    /\ result' = <<"None", <<>>>>
    /\ pc' = "returned"
    /\ UNCHANGED <<parseVars, synthInputs, synthVars, doc, table, original_text, requirements,
                   generated_bullets, summary_bullets, job_bullets, job_inserted,
                   verification, saved>>

Next ==
    \/ LoadResume
    \/ ParseRequirements
    \/ NoRelevantSkills
    \/ CallSynthesizer
    \/ SkipSynthesizer
    \/ CategorizeSkills
    \/ ReturnTemplateBullets
    \/ NoClient
    \/ StartGenerator
    \/ AttemptRaises
    \/ AttemptRejected
    \/ AttemptSucceeds
    \/ SplitBullets
    \/ InsertSummary
    \/ NoJobBullets
    \/ InsertJobBullets
    \/ JobBulletsToSummary
    \/ UpdateTechnicalSkills
    \/ VerifyKeywords
    \/ SaveResume
    \/ SaveFails

Spec == Init /\ [][Next]_vars

----------------------------------------------------------------------------
(* parse_requirements called on a loaded document, and called again        *)

\* requirements texts parse_requirements is exercised on: every trigger of
\* lines 635-687, alone and together, inside longer words, and a text of
\* more than 20 skills
RequirementTexts ==
    { "", "ECS", "Fargate", "AWS Lambda", "Serverless", "Aurora", "DynamoDB", "Kinesis",
      "Kubernetes", "K8s", "Docker", "Helm", "ArgoCD", "Jenkins", "GitHub Actions",
      "GitLab", "Postgres", "MySQL", "MongoDB", "Kafka", "Prometheus", "Grafana",
      "Microservices", "BFF", "SAFe",
      "serverless Lambda", "k8s, Kubernetes", "specs", "Unsafe", "GitHub",
      "ArgoCD, Helm, Docker and Kubernetes", "Kinesis, DynamoDB and Fargate",
      "Grafana, Prometheus, Kafka and MongoDB",
      "Infrastructure Engineer; Vulnerability scanning; System Administration; Backend for Frontend; Penetration testing; Financial Services; Elastic Beanstalk; Machine Learning; Parameter Store; CloudFormation; Elasticsearch; Load testing; AppDynamics; Kubernetes; Terraform; Selenium; Jenkins; Docker; Azure; Helm; AWS; Go" }

InitParse ==
    /\ pc = "parse"
    /\ job_description \in RequirementTexts
    /\ input_type = "str"
    /\ \E r \in Resumes : doc = r.paragraphs /\ table = r.rows
    /\ claude_client = FALSE
    /\ found_skills = {}
    /\ all_skills = <<>>
    /\ resume_text = ""
    /\ missing = <<>>
    /\ missing_skills = <<>>
    /\ SynthIdle
    /\ RunIdle

\* a second call that goes on with the dictionary of the first call
ParseRequirementsShared ==
    /\ pc = "parsed"
    /\ found_skills' = VocabularyHits(job_description) \cup PatternHits(job_description)
                       \cup BulletHits(job_description)
    /\ all_skills' \in SortedByLength(final_skills(found_skills'))
    /\ resume_text' = DocText(doc)
    /\ missing' = find_missing_skills(all_skills', resume_text')
    /\ requirements' =
         LET again == parse_requirements(job_description, all_skills', missing')
         IN  [ k \in DOMAIN again |->
                 IF k \in {"missing_skills", "all_extracted_skills"} THEN again[k]
                 ELSE requirements[k] \o again[k] ]
    /\ pc' = "reparsed"
    /\ UNCHANGED <<job_description, input_type, synthInputs, synthVars, doc, table, original_text,
                   generated_bullets, summary_bullets, job_bullets, job_inserted,
                   verification, saved, result>>

\* lines 607-691, called a second time with the same text: the dictionary
\* of lines 611-623 is built anew, the extractor and the gap detector run
\* again, and nothing the first call computed is read
ParseRequirementsAgain ==
    /\ pc = "parsed"
    /\ found_skills' = VocabularyHits(job_description) \cup PatternHits(job_description)
                       \cup BulletHits(job_description)
    /\ all_skills' \in SortedByLength(final_skills(found_skills'))
    /\ resume_text' = DocText(doc)
    /\ missing' = find_missing_skills(all_skills', resume_text')
    /\ requirements' = parse_requirements(job_description, all_skills', missing')
    /\ pc' = "reparsed"
    /\ UNCHANGED <<job_description, input_type, synthInputs, synthVars, doc, table, original_text,
                   generated_bullets, summary_bullets, job_bullets, job_inserted,
                   verification, saved, result>>

NextParse ==
    \/ ParseRequirements
    \/ ParseRequirementsAgain

SpecParse == InitParse /\ [][NextParse]_vars

----------------------------------------------------------------------------
(* Properties of generate_missing_skills_bullets                           *)

\* sl is a skill in lower case
KeyEquals(k, sl) == template_keys_lower[k] = sl

KeyPartial(k, sl) ==
    \/ Contains(template_keys_lower[k], sl)
    \/ Contains(sl, template_keys_lower[k])

HasExactKey(skill) ==
    LET sl == Lower(skill) IN \E k \in DOMAIN skill_templates : KeyEquals(k, sl)

\* some catalog key matches the skill, exactly or partially
HasCatalogMatch(skill) ==
    LET sl == Lower(skill)
    IN  \E k \in DOMAIN skill_templates : KeyEquals(k, sl) \/ KeyPartial(k, sl)

\* b is the catalog's bullet for the skill: the marker and the template of
\* the key that equals the skill or, when no key equals it, of the first key
\* in catalog order that contains the skill or is contained in it
IsCatalogBullet(b, skill) ==
    LET sl == Lower(skill)
    IN  \E k \in DOMAIN skill_templates :
            /\ b = "@   " \o skill_templates[k][2]
            /\ \/ KeyEquals(k, sl)
               \/ /\ ~HasExactKey(skill)
                  /\ KeyPartial(k, sl)
                  /\ \A j \in 1..(k - 1) : ~KeyPartial(j, sl)

\* b is a bullet the generator wrote for the skill
IsGeneratedBullet(b, skill) == ~HasCatalogMatch(skill) /\ Contains(b, GenSentence(skill))

IsBulletFor(b, skill) == IsCatalogBullet(b, skill) \/ IsGeneratedBullet(b, skill)

RECURSIVE InInputOrder(_, _)
\* the bullets bs belong, one each and in this order, to skills met while
\* walking the list skills from its first to its last element
InInputOrder(bs, skills) ==
    IF bs = <<>> THEN TRUE
    ELSE IF skills = <<>> THEN FALSE
    ELSE IF IsBulletFor(Head(bs), Head(skills)) THEN InInputOrder(Tail(bs), Tail(skills))
    ELSE InInputOrder(bs, Tail(skills))

RECURSIVE FromLinesInOrder(_, _)
\* the bullets bs are the sentences of lines met while walking the response
\* lines from the first to the last
FromLinesInOrder(bs, lines) ==
    IF bs = <<>> THEN TRUE
    ELSE IF lines = <<>> THEN FALSE
    ELSE IF Head(bs) \in {CleanLine(Head(lines)), "@   " \o CleanLine(Head(lines))}
         THEN FromLinesInOrder(Tail(bs), Tail(lines))
    ELSE FromLinesInOrder(bs, Tail(lines))

FirstFifteen(skills) == SubSeq(skills, 1, Smaller(Len(skills), 15))

Returned == pc = "synth_done"

\* C1: no gap skill is dropped silently: when the call has not failed, the
\* returned list holds exactly one bullet for every skill of the input,
\* whatever the length of the input and the number of catalog-unmatched skills.
C1_NoSkillDropped ==
    Returned /\ error = "" =>
        /\ Len(bullets) = Len(missing_skills)
        /\ InInputOrder(bullets, missing_skills)

SkillBullets(bs, skills) ==
    LET belongs(b) == \E i \in 1..Len(skills) : IsBulletFor(b, skills[i])
    IN  SelectSeq(bs, belongs)

\* C3 as stated: the bullets are in the order of the input list for every mix
\* of catalog-matched and generator-covered skills: the bullet of a skill
\* precedes the bullets of the skills that follow it in the input.
C3_InputOrder ==
    Returned /\ error = "" => InInputOrder(SkillBullets(bullets, missing_skills), missing_skills)

\* C3 amended: the result is the catalog bullets of the template-matched
\* skills among the first 15, in input order, followed by the generator's
\* bullets in the order of the lines of the generator's response.
C3_CatalogBulletsThenGeneratorBullets ==
    Returned /\ error = "" =>
        LET matched == SelectSeq(FirstFifteen(missing_skills), HasCatalogMatch)
        IN  /\ Len(bullets) >= Len(matched)
            /\ \A i \in 1..Len(matched) : IsCatalogBullet(bullets[i], matched[i])
            /\ \A i \in (Len(matched) + 1)..Len(bullets) :
                   \A j \in 1..Len(missing_skills) : ~IsCatalogBullet(bullets[i], missing_skills[j])
            /\ FromLinesInOrder(SubSeq(bullets, Len(matched) + 1, Len(bullets)), SplitLines(content))

\* C3 witness: a generator-covered skill stood first in the input and its
\* bullet came after the catalog bullet of a later skill
C3_Witness ==
    /\ Returned
    /\ error = ""
    /\ Len(missing_skills) = 2
    /\ ~HasCatalogMatch(missing_skills[1])
    /\ Len(bullets) = 2
    /\ IsCatalogBullet(bullets[1], missing_skills[2])
    /\ IsGeneratedBullet(bullets[2], missing_skills[1])

\* C4: a gap skill that equals a catalog key in any letter case gets the
\* marker followed by exactly that key's template, also when a key earlier
\* in the catalog is a substring of the skill or contains it.
C4_ExactBeforePartial ==
    pc # "synth" =>
        /\ \A i \in 1..Len(FirstFifteen(missing_skills)) :
               HasExactKey(missing_skills[i]) => missing_skills[i] \in Range(template_matched_skills)
        /\ Len(template_bullets) = Len(template_matched_skills)
        /\ \A i \in 1..Len(template_matched_skills) : \A k \in DOMAIN skill_templates :
               KeyEquals(k, Lower(template_matched_skills[i]))
               => template_bullets[i] = "@   " \o skill_templates[k][2]
        /\ (Returned /\ error = "" => SubSeq(bullets, 1, Len(template_bullets)) = template_bullets)

\* C4 witness: a returned bullet is the template of the key that equals the
\* skill although an earlier key matches the skill partially
C4_Witness ==
    /\ Returned
    /\ error = ""
    /\ \E i \in 1..Len(template_matched_skills) : \E k \in DOMAIN skill_templates :
           /\ KeyEquals(k, Lower(template_matched_skills[i]))
           /\ \E j \in 1..(k - 1) : KeyPartial(j, Lower(template_matched_skills[i]))
           /\ bullets[i] = "@   " \o skill_templates[k][2]

\* C5 as stated: for the gap skill "Quantum Flux Capacitor Tuning" and no
\* generator, the bullet is the generic fallback sentence naming the skill.
C5_GenericFallback ==
    (Returned /\ ~claude_client /\ missing_skills = <<"Quantum Flux Capacitor Tuning">>)
    => /\ Len(bullets) = 1
       /\ Contains(bullets[1], "Demonstrated hands-on experience with Quantum Flux Capacitor Tuning in production environments")

\* C5 amended: for the gap skill "Quantum Flux Capacitor Tuning" and no
\* generator, the bullet is the marker followed by the catalog template of
\* the key 'Flux', which is a substring of the skill; it is not empty and no
\* generic sentence.
C5_FluxTemplate ==
    (Returned /\ ~claude_client /\ missing_skills = <<"Quantum Flux Capacitor Tuning">>)
    => bullets = <<"@   Implemented Flux for GitOps automation with automated image updates and Helm release management">>

\* C5 witness: the call has returned one bullet for that skill
C5_Witness ==
    /\ Returned
    /\ ~claude_client
    /\ missing_skills = <<"Quantum Flux Capacitor Tuning">>
    /\ Len(bullets) = 1
    /\ error = ""

----------------------------------------------------------------------------
(* Properties of generate_bullets_with_claude                              *)

\* the skills sent to the generator
Requested == skills_to_generate(unmatched_skills)

\* generate_bullets_with_claude was entered and has ended
GeneratorEnded == Returned /\ claude_client /\ unmatched_skills # <<>>

C13_ShortfallCovered ==
    (GeneratorEnded /\ content # "" /\ Len(ParseReply(content)) < Len(Requested))
    => /\ \A i \in 1..Len(ParseReply(content)) :
              WithPrefix(ParseReply(content))[i] \in Range(bullets)
       /\ (error # "" \/ Len(api_bullets) = Len(Requested))

\* C20: every bullet generate_missing_skills_bullets returns, from a catalog
\* template or from the generator, begins with the marker and three blanks,
\* and the sentence follows: no other spacing, no second marker.
C20_UniformMarker ==
    Returned =>
        \A i \in DOMAIN bullets :
            /\ Len(bullets[i]) > 4
            /\ SubSeq(bullets[i], 1, 4) = "@   "
            /\ Ch(bullets[i], 5) \notin {"@", " "}

\* C21: every sentence generate_bullets_with_claude returns comes from one
\* line of the response, has at least 8 words, and begins with neither a
\* bullet marker nor a number followed by '.' or ')', and holds no bold
\* emphasis; at most one sentence per requested skill is returned.
C21_SentencesCleaned ==
    (GeneratorEnded /\ error = "") =>
        LET sentences == ReplyBullets(content, Requested)
        IN  /\ Len(sentences) <= Len(Requested)
            /\ \A i \in DOMAIN sentences :
                  /\ \E k \in DOMAIN SplitLines(content) :
                        Contains(SplitLines(content)[k], sentences[i])
                  /\ WordCount(sentences[i]) >= 8
                  /\ Ch(sentences[i], 1) \notin {"@", "-", "*", "~", "^", "=", "|"}
                  /\ ~(\E n \in 1..(Len(sentences[i]) - 1) :
                          /\ \A d \in 1..n : Ch(sentences[i], d) \in Digits
                          /\ Ch(sentences[i], n + 1) \in {".", ")"})
                  /\ ~Contains(sentences[i], "**")

C26_AtMostOneBulletPerProcessedSkill ==
    Returned =>
        /\ Len(bullets) <= Smaller(15, Len(missing_skills))
        /\ Len(template_bullets) + Len(api_bullets) <= Smaller(15, Len(missing_skills))
        /\ Len(template_bullets) + Len(unmatched_skills) = Smaller(15, Len(missing_skills))
        /\ Len(api_bullets) <= Smaller(10, Len(unmatched_skills))

C26_Witness ==
    /\ Returned
    /\ error = ""
    /\ Len(ParseReply(content)) > Len(Requested)
    /\ Len(bullets) = Len(missing_skills)
    /\ template_bullets # <<>>

----------------------------------------------------------------------------
(* Properties of update_resume                                             *)

\* C6: guaranteed skill coverage: whenever update_resume returns an output
\* path, every gap skill of requirements['missing_skills'] occurs in the
\* text of the updated document (case-insensitive substring), that is,
\* verify_keywords_added has put no gap skill in 'not_added'.
C6_GuaranteedCoverage ==
    pc = "returned" /\ result[1] # "None" =>
        /\ \A i \in 1..Len(requirements.missing_skills) :
               Contains(Lower(DocText(doc)), Lower(requirements.missing_skills[i]))
        /\ verification.not_added = <<>>

\* C12: a run in which some gap skill could not be covered (no template and
\* no generator, or the generator's retries exhausted) is reported as failed:
\* update_resume saves no document and returns no output path for it.
C12_FailureReported ==
    pc = "returned" /\ error # "" => result[1] = "None" /\ saved = <<>>

\* how many times term stands in text
Occurrences(term, text) == Cardinality({ i \in 1..Len(text) : LitAt(text, i, term) })

\* C23: update_technical_skills appends to a row only the detected tags its
\* content does not hold yet: the table it leaves is left as it is by a
\* second call with the same requirements, and a tag the row did not hold
\* stands in it once.
C23_TableUpdateIdempotent ==
    [][pc = "tables" =>
          /\ update_technical_skills(table', requirements) = table'
          /\ \A i \in DOMAIN table' :
                \A t \in Range(requirements.cloud_services) \cup Range(requirements.cicd_tools)
                           \cup Range(requirements.databases) :
                    Occurrences(t, table'[i].content)
                        <= (IF Contains(table[i].content, t)
                            THEN Occurrences(t, table[i].content) ELSE 1)]_vars

C23_Witness ==
    /\ pc = "verify"
    /\ Len(table) = 3
    /\ table[1].content = "Amazon Web Services (EC2, S3), ECS Fargate"
    /\ table[2].content = "Jenkins"
    /\ table[3].content = "MySQL, PostgreSQL"

\* C27: update_resume splits the n >= 1 generated bullets into the summary
\* list, their first max(1, floor(4n/10)), and the job list, the rest: the
\* summary list followed by the job list is the generated list, the summary
\* list is never empty, and the job list is empty only for n = 1.
C27_SplitPartitions ==
    generated_bullets # <<>> =>
        LET n == Len(generated_bullets)
            share == IF (4 * n) \div 10 >= 1 THEN (4 * n) \div 10 ELSE 1
        IN  /\ Len(summary_bullets) = share
            /\ summary_bullets \o job_bullets = generated_bullets
            /\ summary_bullets # <<>>
            /\ job_bullets = <<>> <=> n = 1

C27_Witness ==
    /\ Len(generated_bullets) = 5
    /\ Len(summary_bullets) = 2
    /\ Len(job_bullets) = 3

\* update_resume calls insert_job_bullets for year y and paragraph p of the
\* document when the paragraph is a job heading of that year (line 1072)
IsTried(y, p) == IsJobHeading(doc[p].text, JobYears[y])

PlacedInOrderAfter(before, after, pos, bs) ==
    /\ Len(after) = Len(before) + Len(bs)
    /\ SubSeq(after, 1, pos) = SubSeq(before, 1, pos)
    /\ SubSeq(after, pos + Len(bs) + 1, Len(after)) = SubSeq(before, pos + 1, Len(before))
    /\ \A k \in 1..Len(bs) : after[pos + k].text \in {bs[k], StripBullets(bs)[k]}

\* C29: insert_summary_bullets and insert_job_bullets place the bullets of
\* their list as new paragraphs that stand together and, read from the top,
\* in the order of the list; the summary bullets stand directly before the
\* next section heading, after the paragraphs the summary has already.
C29_BulletsInListOrder ==
    [][ /\ (pc = "insert_summary" /\ insert_summary_bullets(doc, summary_bullets).ok)
            => PlacedInOrderAfter(doc, doc', SummaryInsertion(doc) - 1, summary_bullets)
        /\ (pc = "insert_job" /\ job_inserted')
            => \E pos \in DOMAIN doc : PlacedInOrderAfter(doc, doc', pos, job_bullets) ]_vars

\* C30: update_resume returns an output path exactly when it has saved the
\* document in this call; it saves at most once, as its last step, after
\* the bullets were inserted, the table updated and the keywords verified;
\* when it returns (None, []) no output document has been written.
C30_PathReturnedIffSaved ==
    /\ [](Len(saved) <= 1)
    /\ [](saved # <<>> => /\ pc = "returned"
                          /\ result[1] # "None"
                          /\ saved[1] = [paragraphs |-> doc, rows |-> table])
    /\ [](pc = "returned" => (result[1] # "None" <=> saved # <<>>))
    /\ []((pc = "returned" /\ result = <<"None", <<>>>>) => saved = <<>>)
    /\ [][saved' # saved => (pc = "save" /\ pc' = "returned")]_vars

C30_Witness ==
    /\ pc = "returned"
    /\ result[1] = "output_path"
    /\ Len(saved) = 1
    /\ DocText(saved[1].paragraphs) # original_text
    /\ verification.added # <<>>

----------------------------------------------------------------------------
(* Properties of find_missing_skills                                       *)

\* term occurs in text as a whole word or phrase, in any letter case: an
\* occurrence with a non-word character or the text edge on both sides
WholePhraseIn(term, text) ==
    \E i \in 1..(Len(text) - Len(term) + 1) :
        /\ Lower(SubSeq(text, i, i + Len(term) - 1)) = Lower(term)
        /\ ~WordAt(text, i - 1)
        /\ ~WordAt(text, i + Len(term))

\* term occurs in text as a case-insensitive substring
ContainsCI(text, term) == Contains(Lower(text), Lower(term))

RECURSIVE IsSubseq(_, _)
\* a is b with some elements left out
IsSubseq(a, b) ==
    IF a = <<>> THEN TRUE
    ELSE IF b = <<>> THEN FALSE
    ELSE IF Head(a) = Head(b) THEN IsSubseq(Tail(a), Tail(b))
    ELSE IsSubseq(a, Tail(b))

\* C7: every skill of the input that stands in the reference text as a whole
\* word or phrase (any letter case, non-word character or text edge on both
\* sides) is excluded from the result of find_missing_skills, also when the
\* skill begins or ends with a non-word character.
C7_PresentExcluded ==
    pc = "found" =>
        \A k \in 1..Len(all_skills) :
            WholePhraseIn(all_skills[k], resume_text) => all_skills[k] \notin Range(missing)

\* C8: every skill of the input that is no case-insensitive substring of the
\* reference text is in the result of find_missing_skills, and the result is
\* a subsequence of the input: same relative order, nothing added, nothing
\* duplicated.
C8_AbsentIncludedInOrder ==
    pc = "found" =>
        /\ \A k \in 1..Len(all_skills) :
               ~ContainsCI(resume_text, all_skills[k]) => all_skills[k] \in Range(missing)
        /\ IsSubseq(missing, all_skills)

\* C8 witness: two different absent skills were returned, in the input's order
C8_Witness ==
    /\ pc = "found"
    /\ Len(all_skills) >= 2
    /\ Len(missing) >= 2
    /\ missing[1] # missing[2]
    /\ \A k \in 1..2 : ~ContainsCI(resume_text, missing[k])
    /\ resume_text # ""

----------------------------------------------------------------------------
(* Properties of extract_all_skills                                        *)

\* C9: every vocabulary entry that stands in the job description as a
\* case-insensitive whole word or phrase is in the list extract_all_skills
\* returns, in its vocabulary spelling, also the entries that begin or end
\* with a non-word character ('.NET', 'C#').
C9_VocabularyIncluded ==
    pc = "extracted" /\ input_type = "str" =>
        \A i \in DOMAIN known_skills :
            WholePhraseIn(known_skills[i], job_description) => known_skills[i] \in Range(all_skills)

\* C10: on the empty text no rule contributes a candidate and the result of
\* extract_all_skills is empty.
C10_EmptyTextEmptyResult ==
    job_description = "" /\ input_type = "str" => found_skills = {} /\ all_skills = <<>>

\* C10 witness: extract_all_skills has returned for the empty text
C10_Witness ==
    pc = "extracted" /\ job_description = "" /\ input_type = "str" /\ all_skills = <<>>

\* C14: extract_all_skills returns for every input, and a rule that fails
\* takes only its own candidates away: the candidates the other rules have
\* found are in the returned list (after the clean-up of lines 200-204).
C14_RuleFailureIsLocal ==
    pc = "extracted" => \A c \in final_skills(found_skills) : c \in Range(all_skills)

\* C17: the list extract_all_skills returns holds no term twice (terms are
\* compared as they are written) and is ordered by non-increasing length:
\* of two neighbours the earlier one is at least as long as the later one.
C17_NoDuplicateLongestFirst ==
    pc = "extracted" =>
        /\ \A i, j \in DOMAIN all_skills : all_skills[i] = all_skills[j] => i = j
        /\ \A i \in 1..(Len(all_skills) - 1) : Len(all_skills[i]) >= Len(all_skills[i + 1])

C17_Witness ==
    /\ pc = "extracted"
    /\ Len(all_skills) >= 3
    /\ Len(all_skills[1]) > Len(all_skills[2])
    /\ Len(all_skills[2]) = Len(all_skills[3])

\* C18: every term extract_all_skills returns is normalized: no white space
\* at either end, no ',' or '.' at the end, at least 2 characters, and not
\* one of the stopwords a, an, the, and, or in any case.
C18_TermsNormalized ==
    pc = "extracted" =>
        \A i \in DOMAIN all_skills :
            /\ Len(all_skills[i]) >= 2
            /\ Ch(all_skills[i], 1) \notin SpaceChars
            /\ Ch(all_skills[i], Len(all_skills[i])) \notin SpaceChars \cup {",", "."}
            /\ Lower(all_skills[i]) \notin {"a", "an", "the", "and", "or"}

\* the term holds an entry of the vocabulary, whatever the case of letters
HoldsKnownSkill(term) ==
    \E k \in DOMAIN known_skills : Contains(Lower(term), known_skills_lower[k])

\* C22: every term extract_all_skills returns contains, whatever the case,
\* an entry of the known-skills vocabulary; a phrase the contextual-phrase
\* and bullet-line rules captured is kept only when it has 3 to 49
\* characters and contains a vocabulary entry.
C22_TermsHoldKnownSkill ==
    pc = "extracted" =>
        /\ \A i \in DOMAIN all_skills : HoldsKnownSkill(all_skills[i])
        /\ \A phrase \in found_skills \ Range(known_skills) :
              Len(phrase) \in 3..49 /\ HoldsKnownSkill(phrase)

C22_Witness ==
    /\ pc = "extracted"
    /\ \E i \in DOMAIN all_skills :
          /\ all_skills[i] \notin Range(known_skills)
          /\ all_skills[i] \in found_skills
          /\ Len(all_skills[i]) > 10

----------------------------------------------------------------------------
(* Properties of parse_requirements                                        *)

Categories ==
    {"cloud_services", "containers", "cicd_tools", "databases", "monitoring", "messaging",
     "methodologies", "other_skills"}

RuleOf(c, tag) ==
    LET at == { i \in DOMAIN ClassificationRules :
                  ClassificationRules[i].category = c /\ ClassificationRules[i].tag = tag }
    IN  IF at = {} THEN 0 ELSE MinOf(at)

\* C16: every category list holds exactly the tags of the rules of that
\* category one of whose triggers is a substring of the lower-cased text, in
\* the order the rules are evaluated, each tag once; a rule that fires is
\* never suppressed by another.
C16_TagsOfTriggeredRules ==
    pc \in {"parsed", "reparsed"} =>
        \A c \in Categories :
            LET tags == requirements[c]
            IN  /\ \A i \in DOMAIN ClassificationRules :
                      ClassificationRules[i].category = c =>
                          ( (\E t \in ClassificationRules[i].triggers :
                                 Contains(Lower(job_description), t))
                            <=> (\E k \in DOMAIN tags : tags[k] = ClassificationRules[i].tag) )
                /\ \A k \in DOMAIN tags : RuleOf(c, tags[k]) > 0
                /\ \A j, k \in DOMAIN tags : j < k => RuleOf(c, tags[j]) < RuleOf(c, tags[k])

C16_Witness ==
    /\ pc = "parsed"
    /\ job_description = "Kinesis, DynamoDB and Fargate"
    /\ requirements.cloud_services = <<"ECS Fargate", "DynamoDB", "Kinesis">>
    /\ requirements.containers = <<>>

\* C19: the gap list parse_requirements stores holds at most 20 entries and
\* is the beginning of the list find_missing_skills returned for the
\* extracted terms and the document's text: its first min(20, n) entries in
\* the same order.
C19_GapListTruncated ==
    pc \in {"parsed", "reparsed"} =>
        LET gaps == find_missing_skills(requirements.all_extracted_skills, DocText(doc))
            kept == requirements.missing_skills
        IN  /\ Len(kept) <= 20
            /\ Len(kept) = Smaller(20, Len(gaps))
            /\ \A i \in 1..Len(kept) : kept[i] = gaps[i]

C19_Witness ==
    /\ pc = "parsed"
    /\ Len(missing) > 20
    /\ Len(requirements.missing_skills) = 20
    /\ requirements.missing_skills[20] = missing[20]

====
